---------------------------- MODULE Spec2Model ----------------------------
(***************************************************************************)
(* Sigma protocols of libscapi: the three-move drivers (SigmaProtocol.hpp)  *)
(* and the Dlog (Schnorr) and DH (Chaum-Pedersen) computations and          *)
(* simulators (SigmaProtocolDlog.hpp, SigmaProtocolDH.hpp), and the AND     *)
(* composition of sub-protocols (SigmaProtocolAnd.cpp).                     *)
(*                                                                          *)
(* SigmaProtocol.cpp, SigmaProtocolDlog.cpp, SigmaProtocolDH.cpp,           *)
(* SigmaProtocolAnd.hpp and the Dlog group are not part of the source       *)
(* tree: the bodies of the methods those files define are modelled from     *)
(* the specification and from the documentation comments of their           *)
(* declarations.                                                            *)
(***************************************************************************)
EXTENDS Integers, Sequences, FiniteSets, TLC

VARIABLES
    kind,           \* concrete protocol of the session: "Dlog" or "DH"
    grp,            \* the DlogGroup: [p, q, g]
    t,              \* soundness parameter in bits
    input,          \* the prover input: [h, u, v, w]
    r,              \* prover computation: the random value chosen in move 1
    e,              \* verifier computation: the stored challenge (bytes)
    a,              \* first message in hand (the verifier's slot a)
    z,              \* second message in hand (the verifier's slot z)
    out,            \* the SigmaSimulatorOutput (a, e, z) last returned
    arg,            \* the challenge argument of the last computeSecondMsg / simulate
    by,             \* who produced the messages in hand: "prover", "sim", "any"
    pc,             \* position of the computation harness
    res,            \* outcome of the last operation
    accepted,       \* accepting transcripts seen by verify, oldest first
    doneFirstMsg,   \* prover driver: the first message was sent
    doneChallenge,  \* verifier driver: the challenge was sent
    toVerifier,     \* channel prover -> verifier: [msgs written, nread of them read]
    toProver,       \* channel verifier -> prover: [msgs written, nread of them read]
    pprog,          \* the calls the prover's caller still makes on its driver
    vprog,          \* the calls the verifier's caller still makes on its driver
    pcalls,         \* calls made on the prover driver
    vcalls,         \* calls made on the verifier driver
    pwait,          \* the prover driver is inside processSecondMsg, reading the channel
    vwait,          \* the verifier driver is inside processVerify, reading the channel
    plog,           \* outcome of every finished call on the prover driver
    vlog,           \* outcome of every finished call on the verifier driver
    subs,           \* AND: the sub-protocols' computations, in order: [kind, grp, t, r, e]
    built,          \* AND: which of "prover", "simulator", "verifier" are constructed
    ctor,           \* the last constructor call: what it built, with which t, its outcome
    subCalls,       \* AND: calls the last operation made on each sub-computation
    main,           \* mainSigma per side argument: [at, code], where it is and its return value
    sessions        \* proof sessions run side by side, each on objects of its own

driverVars == <<doneFirstMsg, doneChallenge, toVerifier, toProver, pprog, vprog,
                pcalls, vcalls, pwait, vwait, plog, vlog>>
harnessVars == <<out, arg, by, pc, res, accepted>>
andVars == <<subs, built, ctor, subCalls>>
vars == <<kind, grp, t, input, r, e, a, z, harnessVars, driverVars, andVars, main, sessions>>

---------------------------------------------------------------------------
(* Bounds of the model.                                                    *)

\* Every scalar of a group with q-1 <= MaxScalar is enumerated; of a larger
\* group, the scalars 0, 1, MaxScalar and q-1.
MaxScalar == 10
\* Challenges handed to an operation are at most this many bytes long.
MaxChalLen == 2
\* Byte values enumerated for a challenge byte.
ByteSample == {0, 2, 5, 255}

\* Soundness parameters tried at construction.
SoundnessParams == {3, 8, 9}

\* Groups of the configuration file: safe primes p = 2q+1 with a generator of
\* the order-q subgroup.
Groups == { [p |-> 23, q |-> 11, g |-> 2], [p |-> 1187, q |-> 593, g |-> 4] }

Kinds == {"Dlog", "DH"}

NoVal == -1

---------------------------------------------------------------------------
(* Integers, bytes.                                                        *)

RECURSIVE ModExp(_, _, _)
ModExp(b, x, m) ==
    IF x = 0 THEN 1 % m
    ELSE LET half == ModExp(b, x \div 2, m)
             sq   == (half * half) % m
         IN  IF x % 2 = 1 THEN (sq * (b % m)) % m ELSE sq

RECURSIVE BitLength(_)
BitLength(n) == IF n = 0 THEN 0 ELSE 1 + BitLength(n \div 2)

\* A challenge is read as an unsigned big-endian integer.
RECURSIVE BytesToInt(_)
BytesToInt(bs) ==
    IF bs = <<>> THEN 0
    ELSE 256 * BytesToInt(SubSeq(bs, 1, Len(bs) - 1)) + bs[Len(bs)]

CeilBytes(tt) == (tt + 7) \div 8

RECURSIVE ByteStrings(_)
ByteStrings(n) ==
    IF n = 0 THEN { <<>> }
    ELSE { Append(s, b) : s \in ByteStrings(n - 1), b \in ByteSample }

\* Challenges a caller may hand to an operation.
Challenges == UNION { ByteStrings(n) : n \in 0..MaxChalLen }

---------------------------------------------------------------------------
(* The DlogGroup collaborator (Zp*, safe prime).                           *)

Mul(G, x, y) == (x * y) % G.p
Exp(G, b, x) == ModExp(b, x, G.p)
IsMember(G, x) == x \in 1..(G.p - 1) /\ ModExp(x, G.q, G.p) = 1
IsPrime(n) == n > 1 /\ \A d \in 2..(n - 1) : d * d > n \/ n % d # 0
ValidateParams(G) ==
    /\ IsPrime(G.q)
    /\ IsPrime(G.p)
    /\ G.p = 2 * G.q + 1
    /\ G.g # 1
    /\ IsMember(G, G.g)

Scalars(G) ==
    IF G.q - 1 <= MaxScalar THEN 0..(G.q - 1) ELSE {0, 1, MaxScalar, G.q - 1}
Elements(G) == { Exp(G, G.g, x) : x \in Scalars(G) }

---------------------------------------------------------------------------
(* Messages.                                                               *)

NoMsg == [tag |-> "none"]
GroupElementMsg(x) == [tag |-> "GE", el |-> x]
DHMsg(x, y) == [tag |-> "DH", a |-> x, b |-> y]
BIMsg(n) == [tag |-> "BI", z |-> n]

\* SigmaMultipleMsg(messages).
MultipleMsg(messages) == [tag |-> "Multi", msgs |-> messages]

\* Faulty variant: the constructor does not keep the challenge.
SigmaSimulatorOutputNoE(first, challenge, second) ==
    [a |-> first, e |-> <<>>, z |-> second]

\* SigmaSimulatorOutput(a, e, z) with its getters getA, getE, getZ.
SigmaSimulatorOutput(first, challenge, second) ==
    [a |-> first, e |-> challenge, z |-> second]

---------------------------------------------------------------------------
(* Construction.                                                           *)

\* Faulty variant: t = bit_length(q) passes.
checkSoundnessParamOffByOne(G, tt) == tt > 0 /\ tt <= BitLength(G.q)

\* checkSoundnessParam: t is valid iff 0 < t <= bitlen(q) - 1.
checkSoundnessParam(G, tt) == tt > 0 /\ tt <= BitLength(G.q) - 1

---------------------------------------------------------------------------
(* Dlog (Schnorr).                                                         *)

\* checkChallengeLength(challenge, t) of SigmaProtocolDlog.
DlogCheckChallengeLength(challenge, tt) == Len(challenge) = CeilBytes(tt)

\* a = g^r
DlogComputeFirstMsg(G, rr) == GroupElementMsg(Exp(G, G.g, rr))

\* Faulty variant: the response is not reduced modulo q.
DlogComputeSecondMsgUnreduced(G, rr, challenge, w) ==
    BIMsg(rr + BytesToInt(challenge) * w)

\* z = (r + e*w) mod q
DlogComputeSecondMsg(G, rr, challenge, w) ==
    BIMsg((rr + BytesToInt(challenge) * w) % G.q)

\* Faulty variant: the equation g^z = a*h^e is not tested.
DlogVerifyWithoutEquation(G, h, challenge, first, second) ==
    /\ ValidateParams(G)
    /\ IsMember(G, h)

\* Faulty variant: the challenge is left out of the equation, g^z = a*h.
DlogVerifyWithoutChallenge(G, h, challenge, first, second) ==
    /\ ValidateParams(G)
    /\ IsMember(G, h)
    /\ Exp(G, G.g, second.z) = Mul(G, first.el, h)

\* ACC IFF VALID_PARAMS(G,q,g) = TRUE AND h in G AND g^z = a*h^e
DlogVerify(G, h, challenge, first, second) ==
    /\ ValidateParams(G)
    /\ IsMember(G, h)
    /\ Exp(G, G.g, second.z) = Mul(G, first.el, Exp(G, h, BytesToInt(challenge)))

\* a = g^z * h^(-e mod q)
DlogSimulate(G, h, challenge, zz) ==
    LET minusE == (G.q - (BytesToInt(challenge) % G.q)) % G.q
    IN  SigmaSimulatorOutput(
            GroupElementMsg(Mul(G, Exp(G, G.g, zz), Exp(G, h, minusE))),
            challenge,
            BIMsg(zz))

---------------------------------------------------------------------------
(* DH (Chaum-Pedersen).                                                    *)

\* checkChallengeLength(size) of SigmaDHProverComputation and SigmaDHSimulator.
DHCheckChallengeLength(size, tt) == size = tt \div 8

\* a = g^r, b = h^r
DHComputeFirstMsg(G, h, rr) == DHMsg(Exp(G, G.g, rr), Exp(G, h, rr))

\* z = (r + e*w) mod q
DHComputeSecondMsg(G, rr, challenge, w) ==
    BIMsg((rr + BytesToInt(challenge) * w) % G.q)

\* ACC IFF VALID_PARAMS(G,q,g) = TRUE AND h in G AND g^z = a*u^e AND h^z = b*v^e
DHVerify(G, h, u, v, challenge, first, second) ==
    /\ ValidateParams(G)
    /\ IsMember(G, h)
    /\ Exp(G, G.g, second.z) = Mul(G, first.a, Exp(G, u, BytesToInt(challenge)))
    /\ Exp(G, h, second.z) = Mul(G, first.b, Exp(G, v, BytesToInt(challenge)))

\* a = g^z * u^(-e mod q), b = h^z * v^(-e mod q)
DHSimulate(G, h, u, v, challenge, zz) ==
    LET minusE == (G.q - (BytesToInt(challenge) % G.q)) % G.q
    IN  SigmaSimulatorOutput(
            DHMsg(Mul(G, Exp(G, G.g, zz), Exp(G, u, minusE)),
                  Mul(G, Exp(G, h, zz), Exp(G, v, minusE))),
            challenge,
            BIMsg(zz))

---------------------------------------------------------------------------
(* The computations of one protocol instance, applied in protocol order:   *)
(*   prover:    computeFirstMsg, [verifier setChallenge], computeSecondMsg *)
(*   simulator: simulate, [verifier setChallenge(output.getE())]           *)
(* and then the verifier computation's verify on the messages in hand.     *)

NoOut == SigmaSimulatorOutput(NoMsg, <<>>, NoMsg)

EmptyChannel == [msgs |-> <<>>, nread |-> 0]

\* No driver is part of the run: the computations are called directly.
DriversIdle ==
    /\ doneFirstMsg = FALSE
    /\ doneChallenge = FALSE
    /\ toVerifier = EmptyChannel
    /\ toProver = EmptyChannel
    /\ pprog = <<>>
    /\ vprog = <<>>
    /\ pcalls = 0
    /\ vcalls = 0
    /\ pwait = FALSE
    /\ vwait = FALSE
    /\ plog = <<>>
    /\ vlog = <<>>

\* The side arguments mainSigma is started with: prover, verifier, and one that
\* is neither.
Sides == {"1", "2", "3"}

\* mainSigma is not part of the run.
NoMain == [s \in Sides |-> [at |-> "none", code |-> 0]]

\* No constructor was called and no AND computation exists.
NoCtor == [what |-> "none", kind |-> "none", q |-> 0, t |-> 0, res |-> "none"]
NoAnd ==
    /\ subs = <<>>
    /\ built = {}
    /\ ctor = NoCtor
    /\ subCalls = <<>>

\* SigmaDlogCommonInput / SigmaDHCommonInput with the witness of the prover input.
DlogProverInput(G, w) == [h |-> Exp(G, G.g, w), u |-> 0, v |-> 0, w |-> w]
DHProverInput(G, h, w) == [h |-> h, u |-> Exp(G, G.g, w), v |-> Exp(G, h, w), w |-> w]

ProverInputs(k, G) ==
    IF k = "Dlog"
    THEN { DlogProverInput(G, w) : w \in Scalars(G) }
    ELSE { DHProverInput(G, h, w) : h \in Elements(G), w \in Scalars(G) }

\* The objects the constructors accept.
Configs ==
    { c \in [kind : Kinds, grp : Groups, t : SoundnessParams] :
        checkSoundnessParam(c.grp, c.t) }

InitComp ==
    /\ \E c \in Configs :
         /\ kind = c.kind
         /\ grp = c.grp
         /\ t = c.t
         /\ input \in ProverInputs(c.kind, c.grp)
    /\ r = NoVal
    /\ e = <<>>
    /\ a = NoMsg
    /\ z = NoMsg
    /\ out = NoOut
    /\ arg = <<>>
    /\ by = "none"
    /\ pc = "start"
    /\ res = "none"
    /\ accepted = <<>>
    /\ DriversIdle
    /\ NoAnd
    /\ main = NoMain /\ sessions = <<>>

\* SigmaDlogProverComputation::computeFirstMsg: SAMPLE a random r in Zq, COMPUTE a = g^r.
DlogProverComputeFirstMsg ==
    /\ kind = "Dlog"
    /\ pc = "start"
    /\ \E rr \in Scalars(grp) :
         /\ r' = rr
         /\ a' = DlogComputeFirstMsg(grp, rr)
    /\ by' = "prover"
    /\ pc' = "first"
    /\ UNCHANGED <<kind, grp, t, input, e, z, out, arg, res, accepted, driverVars, andVars, main, sessions>>

\* SigmaDHProverComputation::computeFirstMsg: SAMPLE r, COMPUTE a = g^r and b = h^r.
DHProverComputeFirstMsg ==
    /\ kind = "DH"
    /\ pc = "start"
    /\ \E rr \in Scalars(grp) :
         /\ r' = rr
         /\ a' = DHComputeFirstMsg(grp, input.h, rr)
    /\ by' = "prover"
    /\ pc' = "first"
    /\ UNCHANGED <<kind, grp, t, input, e, z, out, arg, res, accepted, driverVars, andVars, main, sessions>>

\* Faulty variant: the assignment goes to a local that shadows the member e.
setChallengeShadowed(challenge) == e

\* SigmaDlogVerifierComputation / SigmaDHVerifierComputation::setChallenge: e = challenge.
setChallenge(challenge) == challenge

\* Faulty variant: a fresh, empty vector is returned in place of the member e.
getChallengeEmpty == <<>>

\* getChallenge: return e.
getChallenge == e

\* The challenge of the session is chosen and given to the verifier computation.
VerifierSetChallenge ==
    /\ pc = "first"
    /\ \E c \in Challenges :
         /\ arg' = c
         /\ e' = setChallenge(c)
    /\ pc' = "chal"
    /\ UNCHANGED <<kind, grp, t, input, r, a, z, out, by, res, accepted, driverVars, andVars, main, sessions>>

\* SigmaDlogProverComputation::computeSecondMsg on the challenge of the session.
DlogProverComputeSecondMsg ==
    /\ kind = "Dlog"
    /\ pc = "chal"
    /\ IF DlogCheckChallengeLength(arg, t)
       THEN /\ z' = DlogComputeSecondMsg(grp, r, arg, input.w)
            /\ r' = NoVal
            /\ pc' = "ready"
            /\ res' = "none"
       ELSE /\ res' = "CheatAttempt"
            /\ pc' = "cheat"
            /\ UNCHANGED <<r, z>>
    /\ UNCHANGED <<kind, grp, t, input, e, a, out, arg, by, accepted, driverVars, andVars, main, sessions>>

\* SigmaDHProverComputation::computeSecondMsg on the challenge of the session.
DHProverComputeSecondMsg ==
    /\ kind = "DH"
    /\ pc = "chal"
    /\ IF DHCheckChallengeLength(Len(arg), t)
       THEN /\ z' = DHComputeSecondMsg(grp, r, arg, input.w)
            /\ r' = NoVal
            /\ pc' = "ready"
            /\ res' = "none"
       ELSE /\ res' = "CheatAttempt"
            /\ pc' = "cheat"
            /\ UNCHANGED <<r, z>>
    /\ UNCHANGED <<kind, grp, t, input, e, a, out, arg, by, accepted, driverVars, andVars, main, sessions>>

\* SigmaDlogSimulator::simulate(input, challenge): SAMPLE a random z <- Zq.
DlogSimulatorSimulate ==
    /\ kind = "Dlog"
    /\ pc = "start"
    /\ \E c \in Challenges :
         /\ arg' = c
         /\ IF DlogCheckChallengeLength(c, t)
            THEN /\ \E zz \in Scalars(grp) : out' = DlogSimulate(grp, input.h, c, zz)
                 /\ a' = out'.a
                 /\ z' = out'.z
                 /\ by' = "sim"
                 /\ pc' = "simulated"
                 /\ res' = "none"
            ELSE /\ res' = "CheatAttempt"
                 /\ pc' = "cheat"
                 /\ UNCHANGED <<a, z, out, by>>
    /\ UNCHANGED <<kind, grp, t, input, r, e, accepted, driverVars, andVars, main, sessions>>

\* SigmaDHSimulator::simulate(input, challenge): SAMPLE a random z <- Zq.
DHSimulatorSimulate ==
    /\ kind = "DH"
    /\ pc = "start"
    /\ \E c \in Challenges :
         /\ arg' = c
         /\ IF DHCheckChallengeLength(Len(c), t)
            THEN /\ \E zz \in Scalars(grp) :
                       out' = DHSimulate(grp, input.h, input.u, input.v, c, zz)
                 /\ a' = out'.a
                 /\ z' = out'.z
                 /\ by' = "sim"
                 /\ pc' = "simulated"
                 /\ res' = "none"
            ELSE /\ res' = "CheatAttempt"
                 /\ pc' = "cheat"
                 /\ UNCHANGED <<a, z, out, by>>
    /\ UNCHANGED <<kind, grp, t, input, r, e, accepted, driverVars, andVars, main, sessions>>

\* The verifier computation is given the challenge of the simulated transcript.
VerifierSetSimulatedChallenge ==
    /\ pc = "simulated"
    /\ e' = setChallenge(out.e)
    /\ pc' = "ready"
    /\ UNCHANGED <<kind, grp, t, input, r, a, z, out, arg, by, res, accepted, driverVars, andVars, main, sessions>>

\* verify of the verifier computation of the session's kind, as a boolean.
Verify(first, second) ==
    IF kind = "Dlog"
    THEN DlogVerify(grp, input.h, getChallenge, first, second)
    ELSE DHVerify(grp, input.h, input.u, input.v, getChallenge, first, second)

Transcript == [a |-> a, e |-> e, z |-> z]

\* SigmaDlogVerifierComputation / SigmaDHVerifierComputation::verify(input, a, z).
VerifierVerify ==
    /\ pc = "ready"
    /\ res' = IF Verify(a, z) THEN "accept" ELSE "reject"
    /\ accepted' = IF Verify(a, z) THEN Append(accepted, Transcript) ELSE accepted
    /\ pc' = "verified"
    /\ UNCHANGED <<kind, grp, t, input, r, e, a, z, out, arg, by, driverVars, andVars, main, sessions>>

NextComp ==
    \/ DlogProverComputeFirstMsg
    \/ DHProverComputeFirstMsg
    \/ VerifierSetChallenge
    \/ DlogProverComputeSecondMsg
    \/ DHProverComputeSecondMsg
    \/ DlogSimulatorSimulate
    \/ DHSimulatorSimulate
    \/ VerifierSetSimulatedChallenge
    \/ VerifierVerify

SpecComp == InitComp /\ [][NextComp]_vars

---------------------------------------------------------------------------
(* The Dlog verifier computation facing an arbitrary prover: the common     *)
(* input h and the first message a are any values, the verifier samples a  *)
(* challenge, any second message z arrives, verify decides.  After an      *)
(* accepting transcript the verifier is rewound once: a second challenge   *)
(* and a second z for the same a.                                           *)

\* Every element of Zp* of a group with q-1 <= MaxScalar; of a larger group,
\* the enumerated subgroup elements and p-1, which is not in the subgroup.
AnyElements(G) ==
    IF G.q - 1 <= MaxScalar THEN 1..(G.p - 1) ELSE Elements(G) \cup {G.p - 1}

InitSound ==
    /\ kind = "Dlog"
    /\ \E c \in Configs :
         /\ c.kind = "Dlog"
         /\ grp = c.grp
         /\ t = c.t
         /\ \E h \in Elements(c.grp) : input = [h |-> h, u |-> 0, v |-> 0, w |-> NoVal]
         /\ \E x \in AnyElements(c.grp) : a = GroupElementMsg(x)
    /\ r = NoVal
    /\ e = <<>>
    /\ z = NoMsg
    /\ out = NoOut
    /\ arg = <<>>
    /\ by = "any"
    /\ pc = "await_chal"
    /\ res = "none"
    /\ accepted = <<>>
    /\ DriversIdle
    /\ NoAnd
    /\ main = NoMain /\ sessions = <<>>

\* SigmaDlogVerifierComputation::sampleChallenge: SAMPLE a random challenge
\* e <- {0,1}^t, as ceil(t/8) bytes.
DlogSampleChallenge(tt) == ByteStrings(CeilBytes(tt))

DlogVerifierSampleChallenge ==
    /\ kind = "Dlog"
    /\ \/ pc = "await_chal"
       \/ pc = "verified" /\ by = "any" /\ res = "accept" /\ Len(accepted) = 1
    /\ e' \in DlogSampleChallenge(t)
    /\ pc' = "await_z"
    /\ res' = "none"
    /\ UNCHANGED <<kind, grp, t, input, r, a, z, out, arg, by, accepted, driverVars, andVars, main, sessions>>

\* Any SigmaBIMsg is handed to verify as the second message.
AnySecondMsg ==
    /\ pc = "await_z"
    /\ \E zz \in Scalars(grp) : z' = BIMsg(zz)
    /\ pc' = "ready"
    /\ UNCHANGED <<kind, grp, t, input, r, e, a, out, arg, by, res, accepted, driverVars, andVars, main, sessions>>

NextSound ==
    \/ DlogVerifierSampleChallenge
    \/ AnySecondMsg
    \/ VerifierVerify

SpecSound == InitSound /\ [][NextSound]_vars

---------------------------------------------------------------------------
(* Properties of the computations (SpecComp).                              *)

\* C6 - Dlog completeness: the honest Dlog prover answers every challenge of
\* ceil(t/8) bytes, and its a = g^r and z = (r + e*w) mod q, e read big-endian,
\* make verify(h, a, z) return true under the stored challenge e.
C6_DlogCompleteness ==
    /\ (kind = "Dlog" /\ by = "prover" /\ pc = "cheat") => Len(arg) # CeilBytes(t)
    /\ (kind = "Dlog" /\ by = "prover" /\ pc = "ready") =>
           /\ z.tag = "BI"
           /\ z.z \in 0..(grp.q - 1)
           /\ \E rr \in Scalars(grp) :
                /\ a = GroupElementMsg(Exp(grp, grp.g, rr))
                /\ z.z = (rr + BytesToInt(arg) * input.w) % grp.q
    /\ (kind = "Dlog" /\ by = "prover" /\ pc = "verified") => res = "accept"

\* C6 witness: an honest two-byte challenge with a non-zero high byte was answered
\* for a non-zero witness, and verify accepted.
C6_Witness ==
    /\ kind = "Dlog" /\ by = "prover" /\ pc = "verified" /\ res = "accept"
    /\ e = <<2, 5>> /\ input.w = 1 /\ a.el = 4 /\ z.z = 518

\* C7 - DH completeness: the honest DH prover answers every challenge of
\* ceil(t/8) bytes, and its PairMsg(g^r, h^r) and z = (r + e*w) mod q make
\* verify((h,u,v), a, z) return true under the stored challenge e.
C7_DHCompleteness ==
    /\ (kind = "DH" /\ by = "prover" /\ pc = "cheat") => Len(arg) # CeilBytes(t)
    /\ (kind = "DH" /\ by = "prover" /\ pc = "ready") =>
           /\ z.tag = "BI"
           /\ z.z \in 0..(grp.q - 1)
           /\ \E rr \in Scalars(grp) :
                /\ a = DHMsg(Exp(grp, grp.g, rr), Exp(grp, input.h, rr))
                /\ z.z = (rr + BytesToInt(arg) * input.w) % grp.q
    /\ (kind = "DH" /\ by = "prover" /\ pc = "verified") => res = "accept"

\* C9 - Dlog simulator validity: simulate(h, e) accepts every challenge of
\* ceil(t/8) bytes, returns (a, e, z) with the given e, z in [0,q-1] and
\* a * h^(e mod q) = g^z, and verify accepts (a, z) under challenge e.
C9_DlogSimulatorValid ==
    /\ (kind = "Dlog" /\ by = "none" /\ pc = "cheat") => Len(arg) # CeilBytes(t)
    /\ (kind = "Dlog" /\ pc = "simulated") =>
           /\ out.e = arg
           /\ out.z.tag = "BI" /\ out.z.z \in 0..(grp.q - 1)
           /\ out.a.tag = "GE"
           /\ Mul(grp, out.a.el, Exp(grp, input.h, BytesToInt(arg) % grp.q))
                = Exp(grp, grp.g, out.z.z)
    /\ (kind = "Dlog" /\ by = "sim" /\ pc = "verified") =>
           e = out.e /\ a = out.a /\ z = out.z /\ res = "accept"

\* C9 witness: h = 16, e = 0x05, z = 7 over p = 23, q = 11, g = 2 gives a = 6,
\* and the transcript verified.
C9_Witness ==
    /\ kind = "Dlog" /\ by = "sim" /\ pc = "verified" /\ res = "accept"
    /\ grp.p = 23 /\ input.h = 16 /\ e = <<5>> /\ z.z = 7 /\ a.el = 6

\* C10 - DH simulator validity: simulate((h,u,v), e) accepts every challenge
\* of ceil(t/8) bytes, returns (PairMsg(a1,a2), e, z) with the given e,
\* a1 * u^(e mod q) = g^z and a2 * v^(e mod q) = h^z, and verify accepts it
\* under challenge e.
C10_DHSimulatorValid ==
    /\ (kind = "DH" /\ by = "none" /\ pc = "cheat") => Len(arg) # CeilBytes(t)
    /\ (kind = "DH" /\ pc = "simulated") =>
           /\ out.e = arg
           /\ out.z.tag = "BI" /\ out.z.z \in 0..(grp.q - 1)
           /\ out.a.tag = "DH"
           /\ Mul(grp, out.a.a, Exp(grp, input.u, BytesToInt(arg) % grp.q))
                = Exp(grp, grp.g, out.z.z)
           /\ Mul(grp, out.a.b, Exp(grp, input.v, BytesToInt(arg) % grp.q))
                = Exp(grp, input.h, out.z.z)
    /\ (kind = "DH" /\ by = "sim" /\ pc = "verified") =>
           e = out.e /\ a = out.a /\ z = out.z /\ res = "accept"

---------------------------------------------------------------------------
(* Properties of the Dlog verifier facing an arbitrary prover (SpecSound). *)

\* A challenge of ceil(t/8) bytes whose value is a t-bit number.
RECURSIVE Pow2(_)
Pow2(n) == IF n = 0 THEN 1 ELSE 2 * Pow2(n - 1)
IsTBit(c) == Len(c) = CeilBytes(t) /\ BytesToInt(c) < Pow2(t)

\* (z1 - z2) * (e1 - e2)^(-1) mod q, the inverse taken in Zq (q prime).
Extract(G, t1, t2) ==
    LET de == (BytesToInt(t1.e) - BytesToInt(t2.e)) % G.q
        dz == (t1.z.z - t2.z.z) % G.q
    IN  (dz * ModExp(de, G.q - 2, G.q)) % G.q

\* C8 - Dlog special soundness: two transcripts (a, e1, z1), (a, e2, z2) that
\* verify accepted for the same h and a, with e1 # e2 as t-bit challenges, have
\* e1 - e2 invertible mod q and w = (z1 - z2) * (e1 - e2)^(-1) mod q satisfies
\* g^w = h.
C8_DlogSpecialSoundness ==
    (/\ Len(accepted) = 2
     /\ accepted[1].a = accepted[2].a
     /\ IsTBit(accepted[1].e) /\ IsTBit(accepted[2].e)
     /\ accepted[1].e # accepted[2].e)
    => /\ (BytesToInt(accepted[1].e) - BytesToInt(accepted[2].e)) % grp.q # 0
       /\ Exp(grp, grp.g, Extract(grp, accepted[1], accepted[2])) = input.h

\* C8 witness: two accepting transcripts for one a with different t-bit
\* challenges were seen, and the extracted witness is not trivial.
C8_Witness ==
    /\ Len(accepted) = 2
    /\ accepted[1].a = accepted[2].a
    /\ IsTBit(accepted[1].e) /\ IsTBit(accepted[2].e)
    /\ accepted[1].e # accepted[2].e
    /\ accepted[1].z # accepted[2].z
    /\ Extract(grp, accepted[1], accepted[2]) > 1

---------------------------------------------------------------------------
(* Wire encodings.  A string is a sequence of one-character strings.       *)

Digits == <<"0", "1", "2", "3", "4", "5", "6", "7", "8", "9">>
DigitChars == { Digits[i] : i \in 1..10 }
DigitVal(c) == (CHOOSE i \in 1..10 : Digits[i] = c) - 1

RECURSIVE NatToStr(_)
NatToStr(n) ==
    IF n < 10 THEN <<Digits[n + 1]>>
    ELSE NatToStr(n \div 10) \o <<Digits[(n % 10) + 1]>>

\* Faulty variant: the sign is not written.
IntToStrUnsigned(n) == NatToStr(IF n < 0 THEN 0 - n ELSE n)

\* biginteger::str(): signed decimal.
IntToStr(n) == IF n < 0 THEN <<"-">> \o NatToStr(0 - n) ELSE NatToStr(n)

IsNatStr(s) == s # <<>> /\ \A i \in 1..Len(s) : s[i] \in DigitChars

RECURSIVE StrToNat(_)
StrToNat(s) ==
    IF Len(s) = 1 THEN DigitVal(s[1])
    ELSE 10 * StrToNat(SubSeq(s, 1, Len(s) - 1)) + DigitVal(s[Len(s)])

IsIntStr(s) == IsNatStr(s) \/ (Len(s) > 1 /\ s[1] = "-" /\ IsNatStr(Tail(s)))

\* biginteger(s): parse a signed decimal.
StrToInt(s) == IF s[1] = "-" THEN 0 - StrToNat(Tail(s)) ELSE StrToNat(s)

\* Position of the first ":" of s, 0 when there is none.
FirstColon(s) ==
    IF \E i \in 1..Len(s) : s[i] = ":"
    THEN CHOOSE i \in 1..Len(s) : s[i] = ":" /\ \A j \in 1..(i - 1) : s[j] # ":"
    ELSE 0

\* Position of the first "#" of s, 0 when there is none.
FirstHash(s) ==
    IF \E i \in 1..Len(s) : s[i] = "#"
    THEN CHOOSE i \in 1..Len(s) : s[i] = "#" /\ \A j \in 1..(i - 1) : s[j] # "#"
    ELSE 0

\* The tag that names a message's variant inside a SigmaMultipleMsg encoding.
VariantTag(msg) ==
    CASE msg.tag = "GE" -> "G"
      [] msg.tag = "DH" -> "D"
      [] msg.tag = "BI" -> "B"
      [] msg.tag = "Multi" -> "M"
      [] OTHER -> "?"

\* SigmaGroupElementMsg::toString, SigmaDHMsg::toString, SigmaBIMsg::toString,
\* SigmaMultipleMsg::toString.  The sendable data of a Zp element is its decimal
\* representation.  A SigmaMultipleMsg is the count of its sub-messages and "#",
\* then per sub-message its tag, the length of its encoding, "#" and the
\* encoding.
RECURSIVE toString(_)
RECURSIVE toStringAll(_)
toStringAll(messages) ==
    IF messages = <<>> THEN <<>>
    ELSE LET enc == toString(Head(messages))
         IN  <<VariantTag(Head(messages))>> \o NatToStr(Len(enc)) \o <<"#">> \o enc
               \o toStringAll(Tail(messages))
toString(msg) ==
    CASE msg.tag = "GE" -> NatToStr(msg.el)
      [] msg.tag = "DH" -> NatToStr(msg.a) \o <<":">> \o NatToStr(msg.b)
      [] msg.tag = "BI" -> IntToStr(msg.z)
      [] msg.tag = "Multi" ->
           NatToStr(Len(msg.msgs)) \o <<"#">> \o toStringAll(msg.msgs)

\* initFromString on a message of the variant of template; NoMsg when s is not
\* an encoding of that variant (the parser throws).  A SigmaMultipleMsg is
\* decoded into the variants of the sub-messages the template holds.
RECURSIVE initFromString(_, _)
RECURSIVE initAllFromString(_, _)
initAllFromString(templates, s) ==
    IF templates = <<>> THEN (IF s = <<>> THEN <<>> ELSE <<NoMsg>>)
    ELSE LET h == FirstHash(s)
             digits == SubSeq(s, 2, h - 1)
             n == StrToNat(digits)
         IN  IF h > 2 /\ s[1] = VariantTag(Head(templates)) /\ IsNatStr(digits)
                THEN IF h + n <= Len(s)
                     THEN <<initFromString(Head(templates), SubSeq(s, h + 1, h + n))>>
                            \o initAllFromString(Tail(templates),
                                                 SubSeq(s, h + n + 1, Len(s)))
                     ELSE <<NoMsg>>
                ELSE <<NoMsg>>
initFromString(template, s) ==
    CASE template.tag = "GE" ->
           IF IsNatStr(s) THEN GroupElementMsg(StrToNat(s)) ELSE NoMsg
      [] template.tag = "DH" ->
           LET i == FirstColon(s)
               x == SubSeq(s, 1, i - 1)
               y == SubSeq(s, i + 1, Len(s))
           IN  IF i > 0 /\ IsNatStr(x) /\ IsNatStr(y)
               THEN DHMsg(StrToNat(x), StrToNat(y)) ELSE NoMsg
      [] template.tag = "BI" ->
           IF IsIntStr(s) THEN BIMsg(StrToInt(s)) ELSE NoMsg
      [] template.tag = "Multi" ->
           LET h == FirstHash(s)
               digits == SubSeq(s, 1, h - 1)
           IN  IF h > 1 /\ IsNatStr(digits)
               THEN IF StrToNat(digits) = Len(template.msgs)
                    THEN LET decoded == initAllFromString(template.msgs,
                                                          SubSeq(s, h + 1, Len(s)))
                         IN  IF Len(decoded) = Len(template.msgs)
                                /\ \A i \in 1..Len(decoded) : decoded[i] # NoMsg
                             THEN MultipleMsg(decoded) ELSE NoMsg
                    ELSE NoMsg
               ELSE NoMsg

---------------------------------------------------------------------------
(* The drivers: one SigmaProtocolProver and one SigmaProtocolVerifier over *)
(* a channel that keeps the order of each direction.  toVerifier and       *)
(* toProver hold every message written in that direction and the number of *)
(* them already read.  plog and vlog record, per party, each call and what *)
(* it did: "a", "e", "z" for a message sent, the verdict, or the exception.*)
(* pc = "session": the callers are prove(input) and verify(input);         *)
(* pc = "calls": the callers call the drivers' operations in any order and *)
(* catch what they throw.                                                  *)

\* Number of driver operations the prover's and the verifier's caller invoke
\* when pc = "calls".
MaxCalls == 4
MaxVerifierCalls == 3

\* The scalars the drivers' runs draw w and r from, the bytes they draw
\* challenges from, and the computations the drivers are built on.
SessionScalars(G) == {1, G.q - 1}
SessionBytes == {0, 5}
SessionChallenges(n) == { c \in ByteStrings(n) : \A i \in 1..n : c[i] \in SessionBytes }
SessionConfigs == { c \in Configs : c.t \in {3, 8} }

SessionInputs(k, G) ==
    IF k = "Dlog"
    THEN { DlogProverInput(G, w) : w \in SessionScalars(G) }
    ELSE { DHProverInput(G, Exp(G, G.g, 2), w) : w \in SessionScalars(G) }

\* The empty messages the verifier driver is constructed with.
EmptyFirstMsg(k) == IF k = "Dlog" THEN GroupElementMsg(1) ELSE DHMsg(1, 1)
EmptySecondMsg == BIMsg(-100)

\* CommParty::writeWithSize and the message a read returns.
writeWithSize(channel, data) == [channel EXCEPT !.msgs = Append(@, data)]
HasMsg(channel) == channel.nread < Len(channel.msgs)
NextMsg(channel) == channel.msgs[channel.nread + 1]
readWithSize(channel) == [channel EXCEPT !.nread = @ + 1]

\* SigmaProtocolProver::sendMsgToVerifier.
sendMsgToVerifier(message) == writeWithSize(toVerifier, toString(message))

\* Faulty variant: the bytes written are not the challenge.
sendChallengeToProverEmpty(challenge) == writeWithSize(toProver, <<>>)

\* SigmaProtocolVerifier::sendChallengeToProver.
sendChallengeToProver(challenge) == writeWithSize(toProver, challenge)

\* prove(input): processFirstMsg(input); processSecondMsg().
prove == <<"processFirstMsg", "processSecondMsg">>

\* verify(input): sendChallenge(); processVerify(input).
verify == <<"sendChallenge", "processVerify">>

\* Both constructors leave their flag without a value: the first read of it
\* yields either value.
InitDrivers(mode) ==
    /\ \E c \in SessionConfigs :
         /\ kind = c.kind
         /\ grp = c.grp
         /\ t = c.t
         /\ input \in SessionInputs(c.kind, c.grp)
         /\ a = EmptyFirstMsg(c.kind)
    /\ z = EmptySecondMsg
    /\ r = NoVal
    /\ e = <<>>
    /\ doneFirstMsg \in BOOLEAN
    /\ doneChallenge \in BOOLEAN
    /\ toVerifier = EmptyChannel
    /\ toProver = EmptyChannel
    /\ pprog = IF mode = "session" THEN prove ELSE <<>>
    /\ vprog = IF mode = "session" THEN verify ELSE <<>>
    /\ pcalls = 0
    /\ vcalls = 0
    /\ pwait = FALSE
    /\ vwait = FALSE
    /\ plog = <<>>
    /\ vlog = <<>>
    /\ out = NoOut
    /\ arg = <<>>
    /\ by = "drivers"
    /\ pc = mode
    /\ res = "none"
    /\ accepted = <<>>
    /\ NoAnd

\* The caller is about to invoke op.
PCall(op) ==
    /\ ~pwait
    /\ IF pc = "session" THEN pprog # <<>> /\ Head(pprog) = op
       ELSE pc = "calls" /\ pcalls < MaxCalls
VCall(op) ==
    /\ ~vwait
    /\ IF pc = "session" THEN vprog # <<>> /\ Head(vprog) = op
       ELSE pc = "calls" /\ vcalls < MaxVerifierCalls

\* What is left of the caller once the operation returned, and once it threw:
\* prove and verify let the exception through.
Returned(prog) == IF pc = "session" THEN Tail(prog) ELSE <<>>
Thrown(prog) == <<>>

\* SigmaProtocolProver::processFirstMsg: compute a, send it, doneFirstMsg = true.
ProcessFirstMsg ==
    /\ PCall("processFirstMsg")
    /\ \E rr \in SessionScalars(grp) :
         /\ r' = rr
         /\ toVerifier' = sendMsgToVerifier(
                IF kind = "Dlog" THEN DlogComputeFirstMsg(grp, rr)
                ELSE DHComputeFirstMsg(grp, input.h, rr))
    /\ doneFirstMsg' = TRUE
    /\ pprog' = Returned(pprog)
    /\ pcalls' = pcalls + 1
    /\ plog' = plog \o <<"processFirstMsg", "a">>
    /\ UNCHANGED <<kind, grp, t, input, e, a, z, harnessVars, andVars, main, sessions, doneChallenge,
                   toProver, vprog, vcalls, pwait, vwait, vlog>>

\* SigmaProtocolProver::processSecondMsg up to its channel read: without
\* doneFirstMsg it throws, otherwise it waits for the challenge.
ProcessSecondMsg ==
    /\ PCall("processSecondMsg")
    /\ pcalls' = pcalls + 1
    /\ IF ~doneFirstMsg
       THEN /\ plog' = plog \o <<"processSecondMsg", "ProtocolMisuse">>
            /\ pprog' = Thrown(pprog)
            /\ pwait' = FALSE
       ELSE /\ plog' = Append(plog, "processSecondMsg")
            /\ pprog' = IF pc = "session" THEN pprog ELSE <<"processSecondMsg">>
            /\ pwait' = TRUE
    /\ UNCHANGED <<kind, grp, t, input, r, e, a, z, harnessVars, andVars, main, sessions, doneFirstMsg,
                   doneChallenge, toVerifier, toProver, vprog, vcalls, vwait, vlog>>

\* Faulty variant: the flag is left as it was.
SecondMsgDoneKept(done) == done

\* The last statement of processSecondMsg: doneFirstMsg = false.
SecondMsgDone(done) == FALSE

\* processSecondMsg from its channel read on: computeSecondMsg on the received
\* challenge, send z, clear doneFirstMsg; computeSecondMsg throws CheatAttempt on
\* a challenge of the wrong length, before anything is sent or cleared.
ProcessSecondMsgRead ==
    /\ pwait
    /\ HasMsg(toProver)
    /\ pwait' = FALSE
    /\ LET challenge == NextMsg(toProver)
           ok == IF kind = "Dlog" THEN DlogCheckChallengeLength(challenge, t)
                 ELSE DHCheckChallengeLength(Len(challenge), t)
           second == IF kind = "Dlog"
                     THEN DlogComputeSecondMsg(grp, r, challenge, input.w)
                     ELSE DHComputeSecondMsg(grp, r, challenge, input.w)
       IN  /\ toProver' = readWithSize(toProver)
           /\ IF ok
              THEN /\ toVerifier' = sendMsgToVerifier(second)
                   /\ r' = NoVal
                   /\ doneFirstMsg' = SecondMsgDone(doneFirstMsg)
                   /\ plog' = Append(plog, "z")
                   /\ pprog' = Returned(pprog)
              ELSE /\ plog' = Append(plog, "CheatAttempt")
                   /\ pprog' = Thrown(pprog)
                   /\ UNCHANGED <<toVerifier, r, doneFirstMsg>>
    /\ UNCHANGED <<kind, grp, t, input, e, a, z, harnessVars, andVars, main, sessions, doneChallenge,
                   vprog, pcalls, vcalls, vwait, vlog>>

\* sampleChallenge of either verifier computation: ceil(t/8) random bytes.
SampleChallenge(tt) == SessionChallenges(CeilBytes(tt))

\* SigmaProtocolVerifier::sampleChallenge.
VerifierDriverSampleChallenge ==
    /\ VCall("sampleChallenge")
    /\ e' \in SampleChallenge(t)
    /\ vcalls' = vcalls + 1
    /\ vlog' = Append(vlog, "sampleChallenge")
    /\ vprog' = Returned(vprog)
    /\ UNCHANGED <<kind, grp, t, input, r, a, z, harnessVars, andVars, main, sessions, doneFirstMsg,
                   doneChallenge, toVerifier, toProver, pprog, pcalls, pwait,
                   vwait, plog>>

\* SigmaProtocolVerifier::setChallenge.
VerifierDriverSetChallenge ==
    /\ VCall("setChallenge")
    /\ \E n \in 0..MaxChalLen : \E c \in SessionChallenges(n) : e' = setChallenge(c)
    /\ vcalls' = vcalls + 1
    /\ vlog' = Append(vlog, "setChallenge")
    /\ vprog' = Returned(vprog)
    /\ UNCHANGED <<kind, grp, t, input, r, a, z, harnessVars, andVars, main, sessions, doneFirstMsg,
                   doneChallenge, toVerifier, toProver, pprog, pcalls, pwait,
                   vwait, plog>>

\* SigmaProtocolVerifier::sendChallenge: receive a (the call starts with the
\* read, so it starts when a message is there), sample the challenge if none is
\* set, send it, doneChallenge = true.
SendChallenge ==
    /\ VCall("sendChallenge")
    /\ HasMsg(toVerifier)
    /\ toVerifier' = readWithSize(toVerifier)
    /\ vcalls' = vcalls + 1
    /\ LET first == initFromString(a, NextMsg(toVerifier))
       IN  IF first = NoMsg
           THEN /\ vlog' = vlog \o <<"sendChallenge", "ParseError">>
                /\ vprog' = Thrown(vprog)
                /\ UNCHANGED <<a, e, toProver, doneChallenge>>
           ELSE /\ a' = first
                /\ e' \in (IF getChallenge = <<>> THEN SampleChallenge(t)
                           ELSE {getChallenge})
                /\ toProver' = sendChallengeToProver(e')
                /\ doneChallenge' = TRUE
                /\ vlog' = vlog \o <<"sendChallenge", "e">>
                /\ vprog' = Returned(vprog)
    /\ UNCHANGED <<kind, grp, t, input, r, z, harnessVars, andVars, main, sessions, doneFirstMsg,
                   pprog, pcalls, pwait, vwait, plog>>

\* SigmaProtocolVerifier::processVerify up to its channel read: without
\* doneChallenge it throws, otherwise it waits for z.
ProcessVerify ==
    /\ VCall("processVerify")
    /\ vcalls' = vcalls + 1
    /\ IF ~doneChallenge
       THEN /\ vlog' = vlog \o <<"processVerify", "ProtocolMisuse">>
            /\ vprog' = Thrown(vprog)
            /\ vwait' = FALSE
       ELSE /\ vlog' = Append(vlog, "processVerify")
            /\ vprog' = IF pc = "session" THEN vprog ELSE <<"processVerify">>
            /\ vwait' = TRUE
    /\ UNCHANGED <<kind, grp, t, input, r, e, a, z, harnessVars, andVars, main, sessions, doneFirstMsg,
                   doneChallenge, toVerifier, toProver, pprog, pcalls, pwait, plog>>

\* processVerify from its channel read on: receive z, return verify(input, a, z).
ProcessVerifyRead ==
    /\ vwait
    /\ HasMsg(toVerifier)
    /\ vwait' = FALSE
    /\ toVerifier' = readWithSize(toVerifier)
    /\ LET second == initFromString(z, NextMsg(toVerifier))
       IN  IF second = NoMsg
           THEN /\ vlog' = Append(vlog, "ParseError")
                /\ vprog' = Thrown(vprog)
                /\ UNCHANGED z
           ELSE /\ z' = second
                /\ vlog' = Append(vlog, IF Verify(a, second) THEN "true" ELSE "false")
                /\ vprog' = Returned(vprog)
    /\ UNCHANGED <<kind, grp, t, input, r, e, a, harnessVars, andVars, main, sessions, doneFirstMsg,
                   doneChallenge, toProver, pprog, pcalls, vcalls, pwait, plog>>

ProverNext == ProcessFirstMsg \/ ProcessSecondMsg \/ ProcessSecondMsgRead

VerifierNext == SendChallenge \/ ProcessVerify \/ ProcessVerifyRead

\* prove(input) and verify(input), each in its own process.
InitSession == InitDrivers("session") /\ main = NoMain /\ sessions = <<>>

NextSession ==
    \/ ProcessFirstMsg
    \/ ProcessSecondMsg
    \/ ProcessSecondMsgRead
    \/ SendChallenge
    \/ ProcessVerify
    \/ ProcessVerifyRead

SpecSession ==
    InitSession /\ [][NextSession]_vars /\ WF_vars(ProverNext) /\ WF_vars(VerifierNext)

\* The operations of the two drivers called one by one, in any order.
InitCalls == InitDrivers("calls") /\ main = NoMain /\ sessions = <<>>

NextCalls ==
    \/ ProcessFirstMsg
    \/ ProcessSecondMsg
    \/ ProcessSecondMsgRead
    \/ VerifierDriverSampleChallenge
    \/ VerifierDriverSetChallenge
    \/ SendChallenge
    \/ ProcessVerify
    \/ ProcessVerifyRead

SpecCalls == InitCalls /\ [][NextCalls]_vars

---------------------------------------------------------------------------
(* Properties of the drivers.                                              *)

Last(log) == IF log = <<>> THEN "none" ELSE log[Len(log)]
Count(log, x) == Cardinality({ i \in 1..Len(log) : log[i] = x })

\* prove returned after sending z, verify returned true.
SessionSucceeded ==
    /\ pprog = <<>> /\ ~pwait /\ Last(plog) = "z"
    /\ vprog = <<>> /\ ~vwait /\ Last(vlog) = "true"

\* C1 - prove(input) with a valid witness and verify(common input), run
\* concurrently under fair scheduling of the two parties, always terminate with
\* both drivers finished and the verifier returning true.
C1_SessionCompletes == <>SessionSucceeded

\* The session does complete whenever the prover computation's length check
\* agrees with the ceil(t/8) bytes the verifier sends.
SessionCompletesOnAgreedLength ==
    (kind = "Dlog" \/ t \div 8 = CeilBytes(t)) => <>SessionSucceeded

\* The challenge is written only after a was read, z only after the challenge
\* was read, and no message is written twice.
WireOrder ==
    /\ Len(toVerifier.msgs) <= 2
    /\ Len(toProver.msgs) <= 1
    /\ Len(toProver.msgs) >= 1 => toVerifier.nread >= 1
    /\ Len(toVerifier.msgs) >= 2 => toProver.nread >= 1
    /\ Len(toVerifier.msgs) = Count(plog, "a") + Count(plog, "z")
    /\ Count(plog, "a") <= 1
    /\ Len(toProver.msgs) = Count(vlog, "e")

\* Neither party can take a further step.
Quiescent == ~ENABLED ProverNext /\ ~ENABLED VerifierNext

\* C2 - in every interleaving of prove and verify, e is sent only after a was
\* received, z only after e was received, and exactly one a, one e and one z
\* appear on the wire, in that order.
C2_ExactlyOneEachInOrder ==
    /\ WireOrder
    /\ Quiescent =>
         /\ Len(toProver.msgs) = 1
         /\ Len(toVerifier.msgs) = 2
         /\ Count(plog, "a") = 1 /\ Count(plog, "z") = 1

\* C3 - on a freshly constructed prover driver, processSecondMsg before any
\* processFirstMsg always throws ProtocolMisuse, and the driver neither reads
\* from nor writes to the channel.
C3_FreshProcessSecondThrows ==
    Count(plog, "processFirstMsg") = 0 =>
        /\ \A j \in 1..Len(plog) :
             plog[j] = "processSecondMsg" =>
                 j < Len(plog) /\ plog[j + 1] = "ProtocolMisuse"
        /\ ~pwait
        /\ toProver.nread = 0
        /\ toVerifier.msgs = <<>>

\* C4 - on a freshly constructed verifier driver, processVerify before any
\* sendChallenge always throws ProtocolMisuse, and the driver neither reads from
\* the channel nor calls the verifier computation's verify.
C4_FreshProcessVerifyThrows ==
    Count(vlog, "sendChallenge") = 0 =>
        /\ \A j \in 1..Len(vlog) :
             vlog[j] = "processVerify" =>
                 j < Len(vlog) /\ vlog[j + 1] = "ProtocolMisuse"
        /\ ~vwait
        /\ toVerifier.nread = 0
        /\ Count(vlog, "true") + Count(vlog, "false") = 0

\* C5 - over any sequence of processFirstMsg / processSecondMsg calls each
\* sampled r answers at most one challenge: between two z sent there is a
\* processFirstMsg that sent a new a; a processSecondMsg that sent z leaves
\* doneFirstMsg false, and a processSecondMsg called after it with no
\* processFirstMsg in between throws ProtocolMisuse and sends nothing.
C5_OneResponsePerRandomness ==
    /\ \A i, j \in 1..Len(plog) :
         (i < j /\ plog[i] = "z" /\ plog[j] = "z") =>
             \E k \in (i + 1)..(j - 1) : plog[k] = "a"
    /\ \A i, j \in 1..Len(plog) :
         ( /\ i < j /\ plog[i] = "z" /\ plog[j] = "processSecondMsg"
           /\ \A k \in (i + 1)..(j - 1) : plog[k] # "processFirstMsg" ) =>
             j < Len(plog) /\ plog[j + 1] = "ProtocolMisuse"
    /\ Last(plog) = "z" => ~doneFirstMsg
    /\ Len(toVerifier.msgs) = Count(plog, "a") + Count(plog, "z")

\* z was sent, and the next processSecondMsg threw.
C5_Witness ==
    plog = <<"processFirstMsg", "a", "processSecondMsg", "z",
             "processSecondMsg", "ProtocolMisuse">>

---------------------------------------------------------------------------
(* Challenge lengths and construction.                                     *)

\* C11 - computeSecondMsg and simulate throw CheatAttempt on every challenge
\* whose length differs from ceil(t/8) bytes and accept every challenge of
\* ceil(t/8) bytes, for every t, multiple of 8 or not.
C11_LengthCheckIsCeil ==
    /\ pc = "cheat" => Len(arg) # CeilBytes(t)
    /\ pc \in {"ready", "simulated", "verified"} => Len(arg) = CeilBytes(t)

---------------------------------------------------------------------------
(* The AND composition (SigmaProtocolAnd.cpp).  kind = "AND"; subs are the *)
(* sub-protocols, each with its prover computation's r and its verifier    *)
(* computation's e; t is the soundness parameter handed to the AND         *)
(* constructors; e is the AND verifier's own challenge member; input is    *)
(* the list of sub-inputs handed to the last operation; a and z are the    *)
(* messages in hand.  The sub-computations are constructed first, then the *)
(* AND prover computation, simulator and verifier computation over them;   *)
(* then either the prover computes a, a challenge is sampled or set, the   *)
(* prover computes z and verify runs, or simulate runs and verify runs on  *)
(* its output.                                                             *)

\* Number of sub-protocols of the AND.
MaxChildren == 2

\* The soundness parameters handed to the constructors of the sub-computations.
CtorParams == {-1, 0, 3, 4, 8, 9, 10}

NoGroup == [p |-> 0, q |-> 0, g |-> 0]

\* The computations of one sub-protocol, just constructed.
Sub(k, G, tt) == [kind |-> k, grp |-> G, t |-> tt, r |-> NoVal, e |-> <<>>]

InitAnd ==
    /\ kind = "AND"
    /\ grp = NoGroup
    /\ t \in SoundnessParams
    /\ input = <<>>
    /\ r = NoVal
    /\ e = <<>>
    /\ a = NoMsg
    /\ z = NoMsg
    /\ out = NoOut
    /\ arg = <<>>
    /\ by = "none"
    /\ pc = "build"
    /\ res = "none"
    /\ accepted = <<>>
    /\ DriversIdle
    /\ NoAnd
    /\ main = NoMain /\ sessions = <<>>

\* Constructors of the Dlog and DH prover computation, verifier computation and
\* simulator: throw unless checkSoundnessParam().
ConstructSub ==
    /\ pc = "build"
    /\ built = {}
    /\ Len(subs) < MaxChildren
    /\ \E k \in Kinds, G \in Groups, tt \in CtorParams :
         IF checkSoundnessParam(G, tt)
         THEN /\ subs' = Append(subs, Sub(k, G, tt))
              /\ ctor' = [what |-> "sub", kind |-> k, q |-> G.q, t |-> tt, res |-> "ok"]
         ELSE /\ subs' = subs
              /\ ctor' = [what |-> "sub", kind |-> k, q |-> G.q, t |-> tt,
                          res |-> "InvalidConfig"]
    /\ UNCHANGED <<kind, grp, t, input, r, e, a, z, harnessVars, driverVars, main, sessions,
                   built, subCalls>>

\* What the three AND constructors throw on a sub-computation whose t differs:
\* the prover computation and the simulator throw invalid_argument, the verifier
\* computation throws a pointer to a heap-allocated invalid_argument.
Mismatch(role) == IF role = "verifier" THEN "invalid_argument*" ELSE "InvalidConfig"

\* SigmaANDProverComputation, SigmaANDSimulator, SigmaANDVerifierComputation.
ConstructAnd(role) ==
    /\ pc = "build"
    /\ subs # <<>>
    /\ role \notin built
    /\ IF \E i \in 1..Len(subs) : t # subs[i].t
       THEN /\ ctor' = [what |-> role, kind |-> "AND", q |-> 0, t |-> t,
                        res |-> Mismatch(role)]
            /\ built' = built
       ELSE /\ ctor' = [what |-> role, kind |-> "AND", q |-> 0, t |-> t, res |-> "ok"]
            /\ built' = built \cup {role}
    /\ UNCHANGED <<kind, grp, t, input, r, e, a, z, harnessVars, driverVars, main, sessions,
                   subs, subCalls>>

ConstructAndProver == ConstructAnd("prover")
ConstructAndSimulator == ConstructAnd("simulator")
ConstructAndVerifier == ConstructAnd("verifier")

\* One prover input per sub-protocol, each with a valid witness.
AndInputs(ss) ==
    { inp \in [1..Len(ss) -> UNION { SessionInputs(ss[i].kind, ss[i].grp) : i \in 1..Len(ss) }] :
        \A i \in 1..Len(ss) : inp[i] \in SessionInputs(ss[i].kind, ss[i].grp) }

\* The lists a caller hands over: the right one, one too short, one too long.
PassedInputs(inp) ==
    {inp, SubSeq(inp, 1, Len(inp) - 1),
     Append(inp, IF inp = <<>> THEN [h |-> 2, u |-> 0, v |-> 0, w |-> 1] ELSE inp[1])}

\* Faulty variant: a list that is too long passes.
checkInputAtLeast(inp) == Len(inp) >= Len(subs)

\* checkInput: the number of inputs equals len.
checkInput(inp) == Len(inp) = Len(subs)

Zeros == [i \in 1..Len(subs) |-> 0]
Ones == [i \in 1..Len(subs) |-> 1]

\* The operations of the sub-computation s.
SubFirstMsg(s, in, rr) ==
    IF s.kind = "Dlog" THEN DlogComputeFirstMsg(s.grp, rr)
    ELSE DHComputeFirstMsg(s.grp, in.h, rr)
SubCheckChallengeLength(s, challenge) ==
    IF s.kind = "Dlog" THEN DlogCheckChallengeLength(challenge, s.t)
    ELSE DHCheckChallengeLength(Len(challenge), s.t)
\* Faulty variant: the sub-prover is not handed the challenge.
SubSecondMsgOnNoChallenge(s, in, challenge) ==
    IF s.kind = "Dlog" THEN DlogComputeSecondMsg(s.grp, s.r, <<>>, in.w)
    ELSE DHComputeSecondMsg(s.grp, s.r, <<>>, in.w)
SubSecondMsg(s, in, challenge) ==
    IF s.kind = "Dlog" THEN DlogComputeSecondMsg(s.grp, s.r, challenge, in.w)
    ELSE DHComputeSecondMsg(s.grp, s.r, challenge, in.w)
SubVerify(s, in, first, second) ==
    IF s.kind = "Dlog" THEN DlogVerify(s.grp, in.h, s.e, first, second)
    ELSE DHVerify(s.grp, in.h, in.u, in.v, s.e, first, second)
SubSimulate(s, in, challenge, zz) ==
    IF s.kind = "Dlog" THEN DlogSimulate(s.grp, in.h, challenge, zz)
    ELSE DHSimulate(s.grp, in.h, in.u, in.v, challenge, zz)

\* Index of the first sub-computation that rejects the challenge's length, 0 if none.
FirstCheat(challenge) ==
    IF \E i \in 1..Len(subs) : ~SubCheckChallengeLength(subs[i], challenge)
    THEN CHOOSE i \in 1..Len(subs) :
           /\ ~SubCheckChallengeLength(subs[i], challenge)
           /\ \A j \in 1..(i - 1) : SubCheckChallengeLength(subs[j], challenge)
    ELSE 0

\* SigmaANDProverComputation::computeFirstMsg: checkInput, then the first message
\* of every sub-prover, in order, into one SigmaMultipleMsg.
ANDComputeFirstMsg ==
    /\ pc = "build"
    /\ {"prover", "verifier"} \subseteq built
    /\ \E full \in AndInputs(subs) : \E inp \in PassedInputs(full) :
         /\ input' = inp
         /\ IF ~checkInput(inp)
            THEN /\ res' = "InvalidInput"
                 /\ pc' = "failed"
                 /\ subCalls' = Zeros
                 /\ UNCHANGED <<subs, a>>
            ELSE \E rs \in [1..Len(subs) -> UNION { SessionScalars(subs[i].grp) : i \in 1..Len(subs) }] :
                 /\ \A i \in 1..Len(subs) : rs[i] \in SessionScalars(subs[i].grp)
                 /\ subs' = [i \in 1..Len(subs) |-> [subs[i] EXCEPT !.r = rs[i]]]
                 /\ a' = MultipleMsg([i \in 1..Len(subs) |-> SubFirstMsg(subs[i], inp[i], rs[i])])
                 /\ subCalls' = Ones
                 /\ res' = "none"
                 /\ pc' = "first"
    /\ by' = "prover"
    /\ UNCHANGED <<kind, grp, t, r, e, z, out, arg, accepted, driverVars, main, sessions, built, ctor>>

\* SigmaANDVerifierComputation::sampleChallenge: t/8 random bytes into the local
\* e, handed to every sub-verifier's setChallenge.
ANDSampleChallenge(tt) == ByteStrings(tt \div 8)

ANDVerifierSampleChallenge ==
    /\ pc = "first"
    /\ \E c \in ANDSampleChallenge(t) :
         /\ subs' = [i \in 1..Len(subs) |-> [subs[i] EXCEPT !.e = setChallenge(c)]]
         /\ arg' = c
    /\ pc' = "sampled"
    /\ subCalls' = Ones
    /\ UNCHANGED <<kind, grp, t, input, r, e, a, z, out, by, res, accepted,
                   driverVars, main, sessions, built, ctor>>

\* SigmaANDVerifierComputation::setChallenge: the challenge is stored and handed
\* to every sub-verifier's setChallenge.
ANDVerifierSetChallenge ==
    /\ pc = "first"
    /\ \E n \in 0..MaxChalLen : \E c \in SessionChallenges(n) :
         /\ e' = c
         /\ subs' = [i \in 1..Len(subs) |-> [subs[i] EXCEPT !.e = setChallenge(c)]]
         /\ arg' = c
    /\ pc' = "chal"
    /\ subCalls' = Ones
    /\ UNCHANGED <<kind, grp, t, input, r, a, z, out, by, res, accepted,
                   driverVars, main, sessions, built, ctor>>

\* SigmaANDProverComputation::computeSecondMsg: the second message of every
\* sub-prover on the same challenge, in order; the first sub-prover that throws
\* CheatAttempt ends the loop, those before it have answered.
ANDComputeSecondMsg ==
    /\ pc \in {"sampled", "chal"}
    /\ LET bad == FirstCheat(arg)
       IN  IF bad = 0
           THEN /\ z' = MultipleMsg([i \in 1..Len(subs) |-> SubSecondMsg(subs[i], input[i], arg)])
                /\ subs' = [i \in 1..Len(subs) |-> [subs[i] EXCEPT !.r = NoVal]]
                /\ subCalls' = Ones
                /\ res' = "none"
                /\ pc' = "ready"
           ELSE /\ z' = z
                /\ subs' = [i \in 1..Len(subs) |->
                              IF i < bad THEN [subs[i] EXCEPT !.r = NoVal] ELSE subs[i]]
                /\ subCalls' = [i \in 1..Len(subs) |-> IF i <= bad THEN 1 ELSE 0]
                /\ res' = "CheatAttempt"
                /\ pc' = "cheat"
    /\ UNCHANGED <<kind, grp, t, input, r, e, a, out, arg, by, accepted,
                   driverVars, main, sessions, built, ctor>>

\* Second messages other than the prover's reach verify: each z_i is kept,
\* increased by one or replaced by 0.
AnySecondMsgs ==
    /\ pc = "ready"
    /\ by = "prover"
    /\ \E zs \in [1..Len(subs) -> UNION { {z.msgs[i], BIMsg((z.msgs[i].z + 1) % subs[i].grp.q), BIMsg(0)} : i \in 1..Len(subs) }] :
         /\ \A i \in 1..Len(subs) :
              zs[i] \in {z.msgs[i], BIMsg((z.msgs[i].z + 1) % subs[i].grp.q), BIMsg(0)}
         /\ z' = MultipleMsg(zs)
    /\ by' = "any"
    /\ UNCHANGED <<kind, grp, t, input, r, e, a, out, arg, pc, res, accepted,
                   driverVars, andVars, main, sessions>>

\* Faulty variant: only the last sub-verification decides.
ANDVerifyFoldLastOnly(results) ==
    [verified |-> results[Len(results)],
     calls |-> [i \in 1..Len(results) |-> 1]]

\* The loop of SigmaANDVerifierComputation::verify,
\*   verified = verified && verifiers[i]->verify(...):
\* the i-th sub-verifier is called only while verified is still true.
ANDVerifyFold(results) ==
    [verified |-> \A i \in 1..Len(results) : results[i],
     calls |-> [i \in 1..Len(results) |->
                  IF \A j \in 1..(i - 1) : results[j] THEN 1 ELSE 0]]

\* SigmaANDVerifierComputation::verify: checkInput; the casts of a and z to
\* SigmaMultipleMsg, whose results first and second are never tested (the null
\* tests are on a and z, which are not null), so that a message of another
\* variant leads to a call through a null pointer: the call may crash or
\* return anything; then the loop over the sub-verifiers.
ANDVerify ==
    /\ pc = "ready"
    /\ \E inp \in PassedInputs(input) :
       \E first \in {a, BIMsg(0)} : \E second \in {z, GroupElementMsg(1)} :
         /\ input' = inp
         /\ a' = first
         /\ z' = second
         /\ IF ~checkInput(inp)
            THEN /\ res' = "InvalidInput"
                 /\ subCalls' = Zeros
            ELSE IF first.tag # "Multi" \/ second.tag # "Multi"
            THEN /\ res' \in {"crash", "accept", "reject"}
                 /\ subCalls' \in [1..Len(subs) -> {0, 1}]
            ELSE LET fold == ANDVerifyFold(
                        [i \in 1..Len(subs) |->
                           SubVerify(subs[i], inp[i], first.msgs[i], second.msgs[i])])
                 IN  /\ res' = IF fold.verified THEN "accept" ELSE "reject"
                     /\ subCalls' = fold.calls
    /\ pc' = "verified"
    /\ UNCHANGED <<kind, grp, t, r, e, out, arg, by, accepted, driverVars, main, sessions,
                   subs, built, ctor>>

\* SigmaANDSimulator::checkChallengeLength.
ANDCheckChallengeLength(size, tt) == size = CeilBytes(tt)

\* SigmaANDSimulator::simulate(input, challenge): the length check, then the
\* number of inputs, then every sub-simulator on the same challenge, in order.
ANDSimulateOn(inp, challenge) ==
    /\ input' = inp
    /\ arg' = challenge
    /\ IF ~ANDCheckChallengeLength(Len(challenge), t)
       THEN /\ res' = "CheatAttempt"
            /\ pc' = "cheat"
            /\ subCalls' = Zeros
            /\ UNCHANGED <<a, z, out>>
       ELSE IF Len(inp) # Len(subs)
       THEN /\ res' = "InvalidInput"
            /\ pc' = "failed"
            /\ subCalls' = Zeros
            /\ UNCHANGED <<a, z, out>>
       ELSE IF FirstCheat(challenge) # 0
       THEN /\ res' = "CheatAttempt"
            /\ pc' = "cheat"
            /\ subCalls' = [i \in 1..Len(subs) |-> IF i <= FirstCheat(challenge) THEN 1 ELSE 0]
            /\ UNCHANGED <<a, z, out>>
       ELSE \E zs \in [1..Len(subs) -> UNION { SessionScalars(subs[i].grp) : i \in 1..Len(subs) }] :
            /\ \A i \in 1..Len(subs) : zs[i] \in SessionScalars(subs[i].grp)
            /\ LET outs == [i \in 1..Len(subs) |-> SubSimulate(subs[i], inp[i], challenge, zs[i])]
                   first == MultipleMsg([i \in 1..Len(subs) |-> outs[i].a])
                   second == MultipleMsg([i \in 1..Len(subs) |-> outs[i].z])
               IN  /\ a' = first
                   /\ z' = second
                   /\ out' = SigmaSimulatorOutput(first, challenge, second)
            /\ subCalls' = Ones
            /\ res' = "none"
            /\ pc' = "simulated"
    /\ UNCHANGED <<kind, grp, t, r, e, accepted, driverVars, main, sessions, subs, built, ctor>>

ANDSimulate ==
    /\ pc = "build"
    /\ {"simulator", "verifier"} \subseteq built
    /\ by' = "sim"
    /\ \E full \in AndInputs(subs) : \E inp \in PassedInputs(full) :
       \E n \in 0..MaxChalLen : \E c \in SessionChallenges(n) :
         ANDSimulateOn(inp, c)

\* SigmaANDSimulator::simulate(input): t/8 random bytes, then simulate(input, e).
ANDSimulateSampled ==
    /\ pc = "build"
    /\ {"simulator", "verifier"} \subseteq built
    /\ by' = "simSampled"
    /\ \E full \in AndInputs(subs) : \E inp \in PassedInputs(full) :
       \E c \in ByteStrings(t \div 8) :
         ANDSimulateOn(inp, c)

\* The verifier's challenge is set to the challenge of the simulator's output.
ANDVerifierSetSimulatedChallenge ==
    /\ pc = "simulated"
    /\ e' = out.e
    /\ subs' = [i \in 1..Len(subs) |-> [subs[i] EXCEPT !.e = setChallenge(out.e)]]
    /\ subCalls' = Ones
    /\ pc' = "ready"
    /\ UNCHANGED <<kind, grp, t, input, r, a, z, out, arg, by, res, accepted,
                   driverVars, main, sessions, built, ctor>>

NextAnd ==
    \/ ConstructSub
    \/ ConstructAndProver
    \/ ConstructAndSimulator
    \/ ConstructAndVerifier
    \/ ANDComputeFirstMsg
    \/ ANDVerifierSampleChallenge
    \/ ANDVerifierSetChallenge
    \/ ANDComputeSecondMsg
    \/ AnySecondMsgs
    \/ ANDSimulate
    \/ ANDSimulateSampled
    \/ ANDVerifierSetSimulatedChallenge
    \/ ANDVerify

SpecAnd == InitAnd /\ [][NextAnd]_vars

AndTypeOK == Len(subs) <= MaxChildren

---------------------------------------------------------------------------
(* Properties of construction and of the AND composition (SpecAnd).        *)

\* C12 - every challenge the code samples itself (sampleChallenge of the
\* verifier computation, simulate without a challenge argument) is exactly
\* ceil(t/8) bytes long, hence at least one byte, and passes the length check
\* of the matching computeSecondMsg / simulate.
C12_SampledChallengeLength ==
    /\ pc = "sampled" =>
         /\ Len(arg) = CeilBytes(t)
         /\ \A i \in 1..Len(subs) : Len(subs[i].e) = CeilBytes(t)
    /\ by = "simSampled" =>
         /\ Len(arg) = CeilBytes(t)
         /\ res # "CheatAttempt"

\* C13 - the constructor of a Dlog or DH computation fails with InvalidConfig
\* exactly when t > bit_length(q) - 1 or t <= 0, so that every constructed
\* computation has 1 <= t <= bit_length(q) - 1.
C13_ConstructorChecksT ==
    /\ ctor.what = "sub" =>
         (ctor.res = "InvalidConfig" <=> (ctor.t > BitLength(ctor.q) - 1 \/ ctor.t <= 0))
    /\ \A i \in 1..Len(subs) :
         1 <= subs[i].t /\ subs[i].t <= BitLength(subs[i].grp.q) - 1

\* After one computation was constructed, the constructor refused t = 4 on the
\* group of order 11, whose bit length is 4.
C13_Witness ==
    /\ Len(subs) = 1
    /\ ctor = [what |-> "sub", kind |-> "DH", q |-> 11, t |-> 4, res |-> "InvalidConfig"]

\* verify ran its loop: the number of inputs matched and both messages were
\* SigmaMultipleMsg.
ANDVerifyRan ==
    /\ kind = "AND"
    /\ pc = "verified"
    /\ Len(input) = Len(subs)
    /\ a.tag = "Multi"
    /\ z.tag = "Multi"

\* Every sub-verifier accepts (in_i, a_i, z_i) when z_k is replaced by zz.
AllSubVerifyWith(k, zz) ==
    \A i \in 1..Len(subs) :
        SubVerify(subs[i], input[i], a.msgs[i], IF i = k THEN BIMsg(zz) ELSE z.msgs[i])

\* C14 - AND distributivity: with matching input and message counts the AND
\* verify returns true iff every sub-verifier returns true on (input_i, a_i,
\* z_i) under the shared challenge, and changing any single z_i of an accepting
\* transcript makes it reject.
C14_ANDDistributivity ==
    ANDVerifyRan =>
        /\ res \in {"accept", "reject"}
        /\ res = "accept" <=>
             \A i \in 1..Len(subs) : SubVerify(subs[i], input[i], a.msgs[i], z.msgs[i])
        /\ res = "accept" =>
             \A k \in 1..Len(subs) :
                 \A zz \in Scalars(subs[k].grp) \ {z.msgs[k].z} : ~AllSubVerifyWith(k, zz)

\* AND{Dlog, DH}: the Dlog sub-proof alone would accept, the DH sub-proof's z
\* was changed, the AND rejects.
C14_Witness ==
    /\ ANDVerifyRan
    /\ Len(subs) = 2
    /\ subs[1].kind = "Dlog"
    /\ subs[2].kind = "DH"
    /\ by = "any"
    /\ res = "reject"
    /\ SubVerify(subs[1], input[1], a.msgs[1], z.msgs[1])
    /\ ~SubVerify(subs[2], input[2], a.msgs[2], z.msgs[2])

\* C15 - AND verify calls verify of every sub-verifier exactly once per call,
\* also after an earlier sub-verification returned false.
C15_EverySubVerifierCalled ==
    ANDVerifyRan => \A i \in 1..Len(subs) : subCalls[i] = 1

\* C16 - an AND prover computation, simulator or verifier computation
\* constructed with t fails with InvalidConfig iff some sub-computation's
\* soundness parameter differs from t; a failed construction leaves no object,
\* and after a successful one every sub-computation has the combinator's t.
C16_ANDConstructorChecksT ==
    /\ ctor.kind = "AND" =>
         /\ ctor.res \in {"ok", "InvalidConfig"}
         /\ ctor.res = "InvalidConfig" <=> \E i \in 1..Len(subs) : subs[i].t # t
         /\ ctor.res # "ok" => ctor.what \notin built
    /\ built # {} => \A i \in 1..Len(subs) : subs[i].t = t

\* The last AND operation was handed a number of sub-inputs other than N.
WrongInputCount == kind = "AND" /\ pc # "build" /\ Len(input) # Len(subs)

\* C17 - AND computeFirstMsg, simulate and verify throw InvalidInput whenever
\* the number of sub-inputs differs from N, before any sub-prover, sub-simulator
\* or sub-verifier is called.
C17_WrongCountIsInvalidInput ==
    WrongInputCount => res = "InvalidInput" /\ subCalls = Zeros

\* C17, as the code has it - computeFirstMsg and verify throw InvalidInput
\* whenever the number of sub-inputs differs from N; simulate checks the length
\* of the challenge first, so with a wrong number of sub-inputs it throws
\* CheatAttempt when the challenge, supplied or sampled, fails the length check
\* and InvalidInput otherwise; in every case no sub-computation was called.
C17_WrongCountAfterLengthCheck ==
    WrongInputCount =>
        /\ subCalls = Zeros
        /\ IF by \in {"sim", "simSampled"} /\ ~ANDCheckChallengeLength(Len(arg), t)
           THEN res = "CheatAttempt"
           ELSE res = "InvalidInput"

\* simulate was handed a challenge of the right length and one input too many.
C17_Witness ==
    /\ WrongInputCount
    /\ by = "sim"
    /\ Len(input) = Len(subs) + 1
    /\ ANDCheckChallengeLength(Len(arg), t)
    /\ res = "InvalidInput"
    /\ subCalls = Zeros

\* C18 - AND verify throws InvalidInput, runs no sub-verification and fails in
\* no other way, whenever the first or the second message is not a
\* SigmaMultipleMsg.
C18_NonCompoundIsInvalidInput ==
    (kind = "AND" /\ pc = "verified" /\ (a.tag # "Multi" \/ z.tag # "Multi")) =>
        res = "InvalidInput" /\ subCalls = Zeros

\* SigmaANDVerifierComputation::getChallenge: the AND verifier's stored challenge.
ANDGetChallenge == e

\* C19 - after sampleChallenge on the AND verifier, getChallenge of the AND
\* verifier and of every sub-verifier return the same bytes: the challenge the
\* driver sends is the one every sub-verifier verifies against.
C19_OneSharedChallenge ==
    (kind = "AND" /\ pc = "sampled") =>
        \A i \in 1..Len(subs) : subs[i].e = ANDGetChallenge

BySimulator == kind = "AND" /\ by \in {"sim", "simSampled"}

\* C20 - AND simulate hands the same challenge e, supplied or sampled once, to
\* every sub-simulator and returns (SigmaMultipleMsg of the N a_i in order, e
\* unchanged, SigmaMultipleMsg of the N z_i in order), a transcript that the AND
\* verifier with its challenge set to e accepts.
C20_ANDSimulatorValid ==
    /\ (BySimulator /\ pc \in {"cheat", "failed"}) =>
         ~( /\ Len(input) = Len(subs)
            /\ by = "simSampled" \/ Len(arg) = CeilBytes(t) )
    /\ (BySimulator /\ pc = "simulated") =>
         /\ out.e = arg
         /\ out.a = a /\ a.tag = "Multi" /\ Len(a.msgs) = Len(subs)
         /\ out.z = z /\ z.tag = "Multi" /\ Len(z.msgs) = Len(subs)
    /\ (BySimulator /\ ANDVerifyRan) => res = "accept"

---------------------------------------------------------------------------
(* Messages on the wire: one party writes toString of a message, the other *)
(* reads the string into a message of the same variant it holds ready.     *)

\* The messages encoded: elements, scalars of either sign, pairs, and
\* SigmaMultipleMsg messages of at most MaxChildren sub-messages.
WireMessages ==
    LET elements == {0, 1, 9, 10, 22, 1186}
        leaves == { GroupElementMsg(x) : x \in {1, 10, 22} }
                    \cup { BIMsg(n) : n \in {-100, -1, 0, 10} }
                    \cup { DHMsg(9, 4), DHMsg(10, 1186) }
                    \cup { MultipleMsg(<<>>), MultipleMsg(<<BIMsg(-11), DHMsg(1, 10)>>) }
    IN  { GroupElementMsg(x) : x \in elements }
          \cup { BIMsg(n) : n \in {-100, -11, -1, 0, 1, 9, 10, 592} }
          \cup { DHMsg(x, y) : x \in elements, y \in elements }
          \cup { MultipleMsg(ms) :
                   ms \in UNION { [1..n -> leaves] : n \in 0..MaxChildren } }

\* The message of m's variant a receiver holds before it reads: the identity
\* element, SigmaBIMsg() and, for a SigmaMultipleMsg, one such message per slot.
RECURSIVE EmptyMsg(_)
EmptyMsg(m) ==
    CASE m.tag = "GE" -> GroupElementMsg(1)
      [] m.tag = "DH" -> DHMsg(1, 1)
      [] m.tag = "BI" -> BIMsg(-100)
      [] m.tag = "Multi" -> MultipleMsg([i \in 1..Len(m.msgs) |-> EmptyMsg(m.msgs[i])])

InitWire ==
    /\ kind = "wire"
    /\ grp = NoGroup
    /\ t = 0
    /\ input = <<>>
    /\ r = NoVal
    /\ e = <<>>
    /\ a \in WireMessages
    /\ z = EmptyMsg(a)
    /\ out = NoOut
    /\ arg = <<>>
    /\ by = "none"
    /\ pc = "wire"
    /\ res = "none"
    /\ accepted = <<>>
    /\ DriversIdle
    /\ NoAnd
    /\ main = NoMain /\ sessions = <<>>

\* The sender writes a.
WireSend ==
    /\ pc = "wire"
    /\ toVerifier' = sendMsgToVerifier(a)
    /\ pc' = "sent"
    /\ UNCHANGED <<kind, grp, t, input, r, e, a, z, out, arg, by, res, accepted,
                   andVars, main, sessions, doneFirstMsg, doneChallenge, toProver, pprog, vprog,
                   pcalls, vcalls, pwait, vwait, plog, vlog>>

\* The receiver reads the string into the message it holds.
WireReceive ==
    /\ pc = "sent"
    /\ HasMsg(toVerifier)
    /\ z' = initFromString(z, NextMsg(toVerifier))
    /\ toVerifier' = readWithSize(toVerifier)
    /\ pc' = "received"
    /\ UNCHANGED <<kind, grp, t, input, r, e, a, out, arg, by, res, accepted,
                   andVars, main, sessions, doneFirstMsg, doneChallenge, toProver, pprog, vprog,
                   pcalls, vcalls, pwait, vwait, plog, vlog>>

NextWire ==
    \/ WireSend
    \/ WireReceive

SpecWire == InitWire /\ [][NextWire]_vars

\* C21 - serialization round trip: for every message variant m (group element,
\* scalar of either sign, pair, compound decoded into messages of the expected
\* variants), initFromString(toString(m)) is a message equal to m; a pair is
\* recovered by splitting on the first ":".
C21_SerializationRoundTrip ==
    (kind = "wire" /\ pc = "received") => z = a

C21_Witness ==
    /\ kind = "wire" /\ pc = "received"
    /\ a = MultipleMsg(<<BIMsg(-1), MultipleMsg(<<BIMsg(-11), DHMsg(1, 10)>>)>>)
    /\ z = a

---------------------------------------------------------------------------
(* The honest runs: a session of prove(input) and verify(input) over the   *)
(* drivers, or an AND composition called in protocol order.                *)

SpecHonest == (InitSession \/ InitAnd) /\ [][NextSession \/ NextAnd]_vars

\* What the prover driver wrote to the channel, in order: "a" or "z".
Sent == SelectSeq(plog, LAMBDA x : x \in {"a", "z"})

IsResponse(msg, q) == msg.tag = "BI" /\ 0 <= msg.z /\ msg.z < q

\* C22 - every scalar message an honest prover transmits (Dlog or DH second
\* move, also inside an AND) carries 0 <= z < q, so the -100 of SigmaBIMsg() is
\* never on the wire; the -100 in the verifier driver's z is overwritten by the
\* received z before verify is called.
C22_SentinelNeverSent ==
    /\ pc = "session" =>
         /\ \A i \in 1..Len(toVerifier.msgs) :
              Sent[i] = "z" =>
                  IsResponse(initFromString(EmptySecondMsg, toVerifier.msgs[i]), grp.q)
         /\ (vlog # <<>> /\ Last(vlog) \in {"true", "false"}) =>
              /\ z = initFromString(EmptySecondMsg, toVerifier.msgs[toVerifier.nread])
              /\ IsResponse(z, grp.q)
    /\ (kind = "AND" /\ pc = "ready" /\ by = "prover") =>
         /\ z.tag = "Multi" /\ Len(z.msgs) = Len(subs)
         /\ \A i \in 1..Len(subs) : IsResponse(z.msgs[i], subs[i].grp.q)

C22_Witness ==
    /\ pc = "session" /\ kind = "DH"
    /\ vlog # <<>> /\ Last(vlog) = "true"
    /\ Len(toVerifier.msgs) = 2 /\ Sent = <<"a", "z">>
    /\ z # EmptySecondMsg /\ toString(z) = toVerifier.msgs[2]

---------------------------------------------------------------------------
(* The sample program: mainSigma(side, configPath), started once per side  *)
(* argument.  Side "1" runs run_prover, side "2" runs run_verifier, both   *)
(* over a Dlog session; each side reads its own configuration.             *)

InitMain ==
    /\ InitDrivers("session")
    /\ kind = "Dlog"
    /\ main = [s \in Sides |-> [at |-> "start", code |-> 0]]
    /\ sessions = <<>>

\* readSigmaConfig(configPath), called outside the try block: a parse error
\* leaves mainSigma, which then returns no value.  run_verifier computes h from
\* the w of its own file.
MainReadConfig(s) ==
    /\ main[s].at = "start"
    /\ \/ /\ main' = [main EXCEPT ![s].at = "uncaught"]
          /\ UNCHANGED input
       \/ /\ main' = [main EXCEPT ![s].at = "running"]
          /\ IF s = "2"
             THEN \E w \in SessionScalars(grp) :
                      input' = [input EXCEPT !.h = Exp(grp, grp.g, w)]
             ELSE UNCHANGED input
    /\ UNCHANGED <<kind, grp, t, r, e, a, z, harnessVars, driverVars, andVars, sessions>>

\* side is neither "1" nor "2": SigmaUsage(); return 1.
MainUsage ==
    /\ main["3"].at = "running"
    /\ main' = [main EXCEPT !["3"] = [at |-> "returned", code |-> 1]]
    /\ UNCHANGED <<kind, grp, t, input, r, e, a, z, harnessVars, driverVars, andVars, sessions>>

\* An exception thrown inside the try block: a logic_error is caught and
\* control reaches return 0, any other exception leaves mainSigma.
MainCatch(s) ==
    \E isLogicError \in BOOLEAN :
        main' = [main EXCEPT ![s] = IF isLogicError
                                    THEN [at |-> "returned", code |-> 0]
                                    ELSE [at |-> "uncaught", code |-> 0]]

\* server->join fails before anything is sent.
MainJoinFails(s) ==
    /\ s \in {"1", "2"}
    /\ main[s].at = "running"
    /\ IF s = "1" THEN plog = <<>> /\ pprog = prove ELSE vlog = <<>> /\ vprog = verify
    /\ MainCatch(s)
    /\ UNCHANGED <<kind, grp, t, input, r, e, a, z, harnessVars, driverVars, andVars, sessions>>

MainRunProver == main["1"].at = "running" /\ ProverNext
MainRunVerifier == main["2"].at = "running" /\ VerifierNext

\* run_prover or run_verifier is over: by an exception, or normally, and then
\* mainSigma returns 0 whatever verify returned.
MainReturn(s) ==
    /\ s \in {"1", "2"}
    /\ main[s].at = "running"
    /\ LET prog == IF s = "1" THEN pprog ELSE vprog
           log == IF s = "1" THEN plog ELSE vlog
           waits == IF s = "1" THEN pwait ELSE vwait
       IN  /\ prog = <<>> /\ ~waits /\ log # <<>>
           /\ IF Last(log) \in {"CheatAttempt", "ProtocolMisuse", "ParseError"}
              THEN MainCatch(s)
              ELSE main' = [main EXCEPT ![s] = [at |-> "returned", code |-> 0]]
    /\ UNCHANGED <<kind, grp, t, input, r, e, a, z, harnessVars, driverVars, andVars, sessions>>

NextMain ==
    \/ \E s \in Sides : MainReadConfig(s)
    \/ MainUsage
    \/ \E s \in Sides : MainJoinFails(s)
    \/ MainRunProver
    \/ MainRunVerifier
    \/ \E s \in Sides : MainReturn(s)

SpecMain == InitMain /\ [][NextMain]_vars

Returned0(s) == main[s].at = "returned" /\ main[s].code = 0

\* C23 - mainSigma returns 0 only when the session completed with the verifier
\* accepting (for the prover's side: when prove completed), and not on a parse
\* error, a channel failure, an error caught during the run or a verifier reject.
C23_ExitCodes ==
    /\ Returned0("2") => (vlog # <<>> /\ Last(vlog) = "true")
    /\ Returned0("1") => (plog # <<>> /\ Last(plog) = "z")
    /\ ~Returned0("3")

---------------------------------------------------------------------------
(* Worked scenarios over p = 23, q = 11, g = 2.                            *)

SmallGroup == [p |-> 23, q |-> 11, g |-> 2]

\* The DH prover on h = 13, w = 3 chose r = 5 and was handed the challenge 0x02.
DHScenario ==
    /\ kind = "DH" /\ grp = SmallGroup /\ by = "prover"
    /\ input.h = 13 /\ input.w = 3
    /\ a = DHMsg(9, 4) /\ arg = <<2>>
    /\ pc \in {"cheat", "ready", "verified"}

\* C24 - DH over p=23, q=11, g=2 with h=13, w=3, u=8, v=18, r=5 (a1=9, a2=4)
\* and e=0x02: the prover's response is z=0 and verify((h,u,v), (a1,a2), z)
\* accepts.
C24_DHScenario ==
    DHScenario =>
        /\ pc # "cheat"
        /\ z = BIMsg(0)
        /\ DHVerify(grp, 13, 8, 18, <<2>>, DHMsg(9, 4), BIMsg(0))

\* The computations called directly, and the constructors of the
\* sub-protocols of an AND composition.
SpecConstructed ==
    /\ InitComp \/ InitAnd
    /\ [][(kind # "AND" /\ NextComp) \/ (kind = "AND" /\ NextAnd)]_vars

\* The constructor of a Dlog computation was called on the group with t = tt.
DlogConstructedWith(tt) ==
    ctor.what = "sub" /\ ctor.kind = "Dlog" /\ ctor.q = SmallGroup.q /\ ctor.t = tt

\* The Dlog prover with soundness tt on w = 4, h = 16 chose r = 3 and was
\* handed the challenge 0x05.
DlogScenario(tt) ==
    /\ kind = "Dlog" /\ grp = SmallGroup /\ t = tt /\ by = "prover"
    /\ input.w = 4 /\ input.h = 16
    /\ a = GroupElementMsg(8) /\ arg = <<5>>
    /\ pc \in {"cheat", "ready", "verified"}

DlogScenarioOutcome ==
    /\ pc # "cheat"
    /\ z = BIMsg(1)
    /\ pc = "verified" => res = "accept"

\* C25 - Dlog over p=23, q=11, g=2: a Dlog prover and verifier computation
\* with t=8 can be constructed for this group, and with w=4, h=16, r=3 and
\* e=0x05 the prover emits a=8 and z=1 and the verifier accepts.
C25_DlogScenarioT8 ==
    /\ DlogConstructedWith(8) => ctor.res = "ok"
    /\ DlogScenario(8) => DlogScenarioOutcome

\* C25 as the model has it: on this group the constructors refuse t=8 and
\* admit t=3, and with t=3, w=4, h=16, r=3 and e=0x05 the prover emits a=8 and
\* z=1 and the verifier accepts.
C25_DlogScenarioT3 ==
    /\ DlogConstructedWith(8) => ctor.res = "InvalidConfig"
    /\ DlogConstructedWith(3) => ctor.res = "ok"
    /\ DlogScenario(3) => DlogScenarioOutcome

C25_Witness ==
    /\ DlogScenario(3)
    /\ r = NoVal /\ z = BIMsg(1) /\ e = <<5>>
    /\ pc = "verified" /\ res = "accept"

---------------------------------------------------------------------------
(* Rejection by the Dlog verifier computation.                             *)

\* verify ran a second time on the a and e of the accepted transcript, with
\* another z.
SameChallengeOtherResponse ==
    /\ kind = "Dlog" /\ by = "any" /\ pc = "verified"
    /\ accepted # <<>>
    /\ accepted[1].a = a /\ accepted[1].e = e /\ accepted[1].z # z

\* C26 - for fixed h in G, a and stored challenge e, Dlog verify accepts at most
\* one z in [0,q): whenever (a, e, z) is accepted, verify on (a, e, (z+1) mod q)
\* returns false, as a boolean result and not as an exception.
C26_AtMostOneResponse ==
    /\ SameChallengeOtherResponse => res = "reject"
    /\ (kind = "Dlog" /\ by = "any" /\ pc = "verified" /\ res = "accept") =>
           ~DlogVerify(grp, input.h, e, a, BIMsg((z.z + 1) % grp.q))

C26_Witness ==
    /\ SameChallengeOtherResponse
    /\ z.z = (accepted[1].z.z + 1) % grp.q
    /\ res = "reject"

---------------------------------------------------------------------------
(* sendChallenge of the verifier driver.                                   *)

\* This step writes a challenge to the prover.
ChallengeSent == Len(toProver'.msgs) = Len(toProver.msgs) + 1

\* setChallenge or sampleChallenge was called on the verifier driver.
ChallengeChosen ==
    \E i \in 1..Len(vlog) : vlog[i] \in {"setChallenge", "sampleChallenge"}

\* The step read one message, the prover's a, and left doneChallenge true.
SentAfterFirstMsg ==
    /\ toVerifier'.nread = toVerifier.nread + 1
    /\ a' = initFromString(a, NextMsg(toVerifier))
    /\ doneChallenge'

---------------------------------------------------------------------------
(* verify of the Dlog and DH verifier computations on any group            *)
(* parameters, common input and messages: a challenge is stored, any       *)
(* second message arrives, verify decides.                                 *)

\* The group of the scenarios; g = 1; g outside the subgroup of order q; p and
\* q not prime.
GateGroups ==
    { SmallGroup, [p |-> 23, q |-> 11, g |-> 1], [p |-> 23, q |-> 11, g |-> 22],
      [p |-> 21, q |-> 10, g |-> 2] }

InitGate ==
    /\ kind \in Kinds
    /\ grp \in GateGroups
    /\ t = 3
    /\ \E h \in {1, 2, 5, 13, 22} :
         IF kind = "Dlog"
         THEN /\ input = [h |-> h, u |-> 0, v |-> 0, w |-> NoVal]
              /\ \E x \in {1, 2, 4} : a = GroupElementMsg(x)
         ELSE /\ \E u \in {1, 2, 5, 13, 22}, v \in {1, 2, 5, 13, 22} :
                   input = [h |-> h, u |-> u, v |-> v, w |-> NoVal]
              /\ \E x \in {1, 2, 4}, y \in {1, 2, 4} : a = DHMsg(x, y)
    /\ r = NoVal
    /\ e \in ByteStrings(1)
    /\ z = NoMsg
    /\ out = NoOut
    /\ arg = <<>>
    /\ by = "any"
    /\ pc = "await_z"
    /\ res = "none"
    /\ accepted = <<>>
    /\ DriversIdle
    /\ NoAnd
    /\ main = NoMain /\ sessions = <<>>

NextGate ==
    \/ AnySecondMsg
    \/ VerifierVerify

SpecGate == InitGate /\ [][NextGate]_vars

\* The equations of the kind's verify hold for the messages in hand.
EquationsHold ==
    LET x == BytesToInt(e)
    IN  IF kind = "Dlog"
        THEN Exp(grp, grp.g, z.z) = Mul(grp, a.el, Exp(grp, input.h, x))
        ELSE /\ Exp(grp, grp.g, z.z) = Mul(grp, a.a, Exp(grp, input.u, x))
             /\ Exp(grp, input.h, z.z) = Mul(grp, a.b, Exp(grp, input.v, x))

\* validate_params fails or an element of the common input is not in the group.
GateClosed ==
    \/ ~ValidateParams(grp)
    \/ ~IsMember(grp, input.h)
    \/ kind = "DH" /\ (~IsMember(grp, input.u) \/ ~IsMember(grp, input.v))

\* C28 - Dlog verify returns false whenever validate_params fails or h is not
\* a group member, and DH verify returns false whenever validate_params fails
\* or one of h, u, v is not a group member, whether or not the exponentiation
\* equations hold for the given a and z.
C28_MembershipGate ==
    (pc = "verified" /\ kind \in Kinds /\ GateClosed) => res = "reject"

---------------------------------------------------------------------------
(* The messages of the AND prover computation.                             *)

\* first is the first message of a prover of s's kind on input in with
\* randomness rr, and second, if any, its response to challenge.
IsFirstOf(s, in, rr, first) ==
    IF s.kind = "Dlog"
    THEN first = GroupElementMsg(Exp(s.grp, s.grp.g, rr))
    ELSE first = DHMsg(Exp(s.grp, s.grp.g, rr), Exp(s.grp, in.h, rr))
IsSecondOf(s, in, rr, challenge, second) ==
    second = BIMsg((rr + BytesToInt(challenge) * in.w) % s.grp.q)

\* C29 - the AND prover's computeFirstMsg returns a SigmaMultipleMsg of exactly
\* N sub-messages, the i-th being sub-prover i's first message on sub-input i;
\* computeSecondMsg(e) hands the same e to every sub-prover and returns a
\* SigmaMultipleMsg of exactly N sub-messages, the i-th being sub-prover i's
\* response, in the order of the first message.
C29_ANDProverShape ==
    /\ (kind = "AND" /\ by = "prover" /\ pc = "first") =>
         /\ a.tag = "Multi" /\ Len(a.msgs) = Len(subs) /\ Len(input) = Len(subs)
         /\ subCalls = Ones
         /\ \A i \in 1..Len(subs) : IsFirstOf(subs[i], input[i], subs[i].r, a.msgs[i])
    /\ (kind = "AND" /\ by = "prover" /\ pc = "ready") =>
         /\ a.tag = "Multi" /\ Len(a.msgs) = Len(subs)
         /\ z.tag = "Multi" /\ Len(z.msgs) = Len(subs)
         /\ subCalls = Ones
         /\ \A i \in 1..Len(subs) : \E rr \in SessionScalars(subs[i].grp) :
              /\ IsFirstOf(subs[i], input[i], rr, a.msgs[i])
              /\ IsSecondOf(subs[i], input[i], rr, arg, z.msgs[i])

C29_Witness ==
    /\ kind = "AND" /\ by = "prover" /\ pc = "ready"
    /\ Len(subs) = 2 /\ subs[1].kind = "Dlog" /\ subs[2].kind = "DH"
    /\ a.msgs[1].tag = "GE" /\ a.msgs[2].tag = "DH"
    /\ arg # <<0>> /\ Len(arg) = 1
    /\ z.msgs[1] # z.msgs[2]

---------------------------------------------------------------------------
(* Proof sessions side by side.  Each session has its own prover and       *)
(* verifier computations: a Dlog pair, or an AND pair over two Dlog        *)
(* sub-protocols.  The sessions share the group only.  A session's record  *)
(* holds, per (sub-)protocol, the prover's r, the messages a and z and the *)
(* challenge e stored in the verifier computation, and the bytes arg the   *)
(* prover was handed.                                                      *)

\* Number of sessions run side by side.
NumSessions == 2

Children(k) == IF k = "AND" THEN 2 ELSE 1

\* The witness of the i-th (sub-)protocol of a session.
SessionWitness(G, i) == IF i = 1 THEN 1 ELSE G.q - 1

\* Faulty variant: one challenge member shared by the verifier computations of
\* all sessions.
ChallengeOfFirstSession(s) == 1

\* The vector<byte> e of a verifier computation is a member of the object: the
\* session whose record holds what session s's verifier stores.
ChallengeOf(s) == s

InitSessions ==
    /\ kind = "sessions"
    /\ grp \in Groups
    /\ t = 8
    /\ checkSoundnessParam(grp, t)
    /\ input = <<>>
    /\ r = NoVal
    /\ e = <<>>
    /\ a = NoMsg
    /\ z = NoMsg
    /\ out = NoOut
    /\ arg = <<>>
    /\ by = "none"
    /\ pc = "sessions"
    /\ res = "none"
    /\ accepted = <<>>
    /\ DriversIdle
    /\ NoAnd
    /\ main = NoMain
    /\ sessions \in [1..NumSessions ->
                       { [kind |-> k, pc |-> "start", r |-> <<>>, a |-> <<>>,
                          e |-> [i \in 1..Children(k) |-> <<>>], arg |-> <<>>,
                          z |-> <<>>, verdict |-> "none"] : k \in {"Dlog", "AND"} }]

\* computeFirstMsg of the session's prover computation (for AND: of every
\* sub-prover, SigmaProtocolAnd.cpp:44-58).
SessionFirstMsg(s) ==
    /\ sessions[s].pc = "start"
    /\ \E rs \in [1..Children(sessions[s].kind) -> SessionScalars(grp)] :
         sessions' = [sessions EXCEPT
                        ![s].r = rs,
                        ![s].a = [i \in DOMAIN rs |-> DlogComputeFirstMsg(grp, rs[i])],
                        ![s].pc = "first"]

\* sampleChallenge of the session's verifier computation: the Dlog verifier
\* stores the bytes, the AND verifier hands them to its sub-verifiers.
SessionSampleChallenge(s) ==
    /\ sessions[s].pc = "first"
    /\ \E c \in IF sessions[s].kind = "AND"
                THEN { x \in ANDSampleChallenge(t) : x \in SessionChallenges(Len(x)) }
                ELSE SampleChallenge(t) :
         sessions' = [sessions EXCEPT
                        ![s].arg = c,
                        ![s].pc = "sampled",
                        ![ChallengeOf(s)].e = [i \in DOMAIN @ |-> c]]

\* computeSecondMsg of the session's prover computation on the bytes received.
SessionSecondMsg(s) ==
    /\ sessions[s].pc = "sampled"
    /\ sessions' = [sessions EXCEPT
                      ![s].z = [i \in DOMAIN sessions[s].r |->
                                  DlogComputeSecondMsg(grp, sessions[s].r[i],
                                      sessions[s].arg, SessionWitness(grp, i))],
                      ![s].pc = "ready"]

\* verify of the session's verifier computation, under the stored challenge.
SessionVerify(s) ==
    /\ sessions[s].pc = "ready"
    /\ LET x == sessions[s]
           results == [i \in DOMAIN x.a |->
                         DlogVerify(grp, Exp(grp, grp.g, SessionWitness(grp, i)),
                                    x.e[i], x.a[i], x.z[i])]
       IN  sessions' = [sessions EXCEPT
                          ![s].verdict = IF ANDVerifyFold(results).verified
                                         THEN "true" ELSE "false",
                          ![s].pc = "verified"]

NextSessions ==
    /\ \E s \in 1..NumSessions :
         \/ SessionFirstMsg(s)
         \/ SessionSampleChallenge(s)
         \/ SessionSecondMsg(s)
         \/ SessionVerify(s)
    /\ UNCHANGED <<kind, grp, t, input, r, e, a, z, harnessVars, driverVars, andVars, main>>

SpecSessions == InitSessions /\ [][NextSessions]_vars

\* What session s holds is what it holds when it runs alone: its verifier
\* stores the bytes it sampled itself, in every sub-verifier, and its verdict
\* is that of its own honest transcript.
AsAlone(s) ==
    LET x == sessions[s]
    IN  /\ x.pc \in {"start", "first"} => \A i \in DOMAIN x.e : x.e[i] = <<>>
        /\ x.pc \in {"sampled", "ready", "verified"} =>
               \A i \in DOMAIN x.e : x.e[i] = x.arg
        /\ x.pc = "verified" <=> x.verdict # "none"
        /\ x.pc = "verified" => x.verdict = "true"

\* A step is a step of one session and leaves every other session as it was;
\* a stored challenge and a verdict do not change afterwards.
OneSessionSteps ==
    \E s \in 1..NumSessions :
        /\ \A o \in 1..NumSessions : o # s => sessions'[o] = sessions[o]
        /\ sessions[s].pc # "verified"
        /\ sessions[s].pc \in {"sampled", "ready"} => sessions'[s].e = sessions[s].e

\* C30 - session isolation: two sessions on distinct driver and computation
\* objects, interleaved in any way, do not influence each other: the challenge
\* a session's verifier stores (also the one an AND verifier hands to its
\* sub-verifiers) and the session's verdict are those of the session run alone.
C30_SessionIsolation ==
    /\ [](kind = "sessions" => \A s \in 1..NumSessions : AsAlone(s))
    /\ [][kind = "sessions" => OneSessionSteps]_vars

C30_Witness ==
    /\ kind = "sessions"
    /\ sessions[1].kind = "AND" /\ sessions[2].kind = "Dlog"
    /\ sessions[1].pc = "verified" /\ sessions[2].pc = "verified"
    /\ sessions[1].e = <<<<5>>, <<5>>>> /\ sessions[2].e = <<<<0>>>>
    /\ sessions[1].verdict = "true" /\ sessions[2].verdict = "true"

---------------------------------------------------------------------------
(* The AND composition over any number of sub-protocols, none included,    *)
(* with compound messages of any number of sub-messages reaching verify.   *)

InitAndAnyCount ==
    /\ kind = "AND"
    /\ grp = NoGroup
    /\ t \in CtorParams
    /\ input = <<>>
    /\ r = NoVal
    /\ e = <<>>
    /\ a = NoMsg
    /\ z = NoMsg
    /\ out = NoOut
    /\ arg = <<>>
    /\ by = "none"
    /\ pc = "build"
    /\ res = "none"
    /\ accepted = <<>>
    /\ DriversIdle
    /\ NoAnd
    /\ main = NoMain /\ sessions = <<>>

\* Faulty variant: the constructors on an empty vector refuse a soundness
\* parameter that is not positive.
ConstructAndOfNoneChecksT ==
    /\ pc = "build"
    /\ subs = <<>>
    /\ \E role \in {"prover", "simulator", "verifier"} \ built :
         IF t > 0
         THEN /\ ctor' = [what |-> role, kind |-> "AND", q |-> 0, t |-> t, res |-> "ok"]
              /\ built' = built \cup {role}
         ELSE /\ ctor' = [what |-> role, kind |-> "AND", q |-> 0, t |-> t,
                          res |-> "InvalidConfig"]
              /\ built' = built
    /\ UNCHANGED <<kind, grp, t, input, r, e, a, z, harnessVars, driverVars, main, sessions,
                   subs, subCalls>>

\* The three AND constructors on an empty vector of sub-computations: the loop
\* that compares t has no iteration, len = 0 and t are stored.
ConstructAndOfNone ==
    /\ pc = "build"
    /\ subs = <<>>
    /\ \E role \in {"prover", "simulator", "verifier"} \ built :
         /\ ctor' = [what |-> role, kind |-> "AND", q |-> 0, t |-> t, res |-> "ok"]
         /\ built' = built \cup {role}
    /\ UNCHANGED <<kind, grp, t, input, r, e, a, z, harnessVars, driverVars, main, sessions,
                   subs, subCalls>>

\* SigmaANDVerifierComputation::verify on SigmaMultipleMsg a and z of any length:
\* the right one, one sub-message short, one sub-message long.  The loop runs
\* i = 0..len-1 and reads firstMessages[i] and secondMessages[i] only while
\* verified is true; no length is compared, so a read at an index past the end
\* of a vector is undefined: the call may crash or return anything.
ANDVerifyAnyCount ==
    /\ pc = "ready"
    /\ LET Passed(m) == {m, MultipleMsg(SubSeq(m.msgs, 1, Len(m.msgs) - 1)),
                         MultipleMsg(Append(m.msgs, BIMsg(0)))}
       IN  \E inp \in PassedInputs(input) :
           \E first \in Passed(a) : \E second \in Passed(z) :
             /\ input' = inp
             /\ a' = first
             /\ z' = second
             /\ IF ~checkInput(inp)
                THEN /\ res' = "InvalidInput"
                     /\ subCalls' = Zeros
                ELSE LET m == IF Len(first.msgs) < Len(second.msgs)
                              THEN Len(first.msgs) ELSE Len(second.msgs)
                         n == IF m < Len(subs) THEN m ELSE Len(subs)
                         fold == ANDVerifyFold(
                                   [i \in 1..n |->
                                      SubVerify(subs[i], inp[i], first.msgs[i], second.msgs[i])])
                     IN  IF n < Len(subs) /\ fold.verified
                         THEN /\ res' \in {"crash", "accept", "reject"}
                              /\ subCalls' \in { c \in [1..Len(subs) -> {0, 1}] :
                                                   \A i \in 1..n : c[i] = 1 }
                         ELSE /\ res' = IF fold.verified THEN "accept" ELSE "reject"
                              /\ subCalls' = [i \in 1..Len(subs) |->
                                                IF i <= n THEN fold.calls[i] ELSE 0]
    /\ pc' = "verified"
    /\ UNCHANGED <<kind, grp, t, r, e, out, arg, by, accepted, driverVars, main, sessions,
                   subs, built, ctor>>

NextAndAnyCount ==
    \/ ConstructSub
    \/ ConstructAndProver
    \/ ConstructAndSimulator
    \/ ConstructAndVerifier
    \/ ConstructAndOfNone
    \/ ANDComputeFirstMsg
    \/ ANDVerifierSetChallenge
    \/ ANDComputeSecondMsg
    \/ ANDVerifyAnyCount

SpecAndAnyCount == InitAndAnyCount /\ [][NextAndAnyCount]_vars

\* verify ran on the right number of inputs and on compound messages of which
\* one at least has not len sub-messages.
WrongMsgCount ==
    /\ kind = "AND"
    /\ pc = "verified"
    /\ Len(input) = Len(subs)
    /\ Len(a.msgs) # Len(subs) \/ Len(z.msgs) # Len(subs)

\* C31 - AND verify reads no sub-message at an index outside the compound
\* messages it received: with the right number of inputs and a compound a or z
\* whose number of sub-messages differs from len, verify ends with false or
\* with InvalidInput.
C31_WrongMsgCountIsDefined ==
    WrongMsgCount => res \in {"reject", "InvalidInput"}

\* An AND computation over no sub-protocol was constructed.
EmptyAnd == kind = "AND" /\ subs = <<>> /\ ctor.kind = "AND"

\* C32 - an AND composition over zero sub-protocols is constructible with any
\* t; its computeSecondMsg checks no challenge length and returns an empty
\* SigmaMultipleMsg; its verify returns true for an empty list of common inputs
\* and any compound messages.
C32_EmptyAnd ==
    EmptyAnd =>
        /\ ctor.res = "ok"
        /\ pc # "cheat"
        /\ (pc = "ready" => z = MultipleMsg(<<>>) /\ res = "none")
        /\ (pc = "verified" /\ input = <<>> => res = "accept")

C32_Witness ==
    /\ EmptyAnd
    /\ built = {"prover", "simulator", "verifier"}
    /\ t = -1
    /\ Len(arg) = 1
    /\ pc = "verified"
    /\ input = <<>>
    /\ Len(a.msgs) = 1 /\ Len(z.msgs) = 0
    /\ res = "accept"

=============================================================================
